---- MODULE Spec2Model ----
(***************************************************************************)
(* Model of the content-script scanning pipeline of github-issue-linker:   *)
(* the LinkProcessor (content-script/link-processor.ts), the helpers of    *)
(* lib/utils and lib/issue-tracker, the StorageManager calls the content   *)
(* script makes, and the ContentScript that drives them (the draft that    *)
(* uses LinkProcessor.reset and getUniqueDetectedKeys).                    *)
(*                                                                         *)
(* Texts are sequences of one-character strings, so that the regular       *)
(* expression \bPREFIX-\d+\b is matched character by character.            *)
(* Every action is one run-to-completion step of the single JavaScript     *)
(* thread: the code between two suspension points (await, setTimeout,      *)
(* idle callback, observer callback).                                      *)
(***************************************************************************)
EXTENDS Integers, Sequences, FiniteSets, TLC

VARIABLES
    \* ---- host page
    url,              \* path segments of window.location.href
    navCount,         \* navigations performed by the page so far
    added,            \* subtree roots the page has inserted into the document
    fillerCount,      \* number of plain text nodes under <main>
    elementCount,     \* document.querySelectorAll('*').length at construction
    \* ---- LinkProcessor fields
    mappings,         \* this.mappings
    processedCount,   \* this.processedCount
    detectedKeys,     \* this.detectedKeys
    options,          \* this.options
    observed,         \* targets registered with this.intersectionObserver
    \* ---- ContentScript fields and closures
    currentRepository,
    lastUrl,          \* lastUrl of setupNavigationListener
    listening,        \* the mutation observer and the navigation listeners are installed
    \* ---- storage collaborator
    processingCache,  \* repositories with a session-tier processing-cache entry
    \* ---- scheduler
    tasks,            \* suspended async functions and queued idle callbacks
    rescanTimers,     \* pending setTimeout(() => this.processInitialContent(), 500)
    pendingMutations, \* arguments held by the debounced mutation handler
    destroyed,        \* ContentScript.destroy has run
    \* ---- storage tiers and the console
    stored,           \* the repositoryMappings value of the local tier
    errorLogs,        \* messages of the error-log records of the session tier
    consoleErrors,    \* messages written with console.error
    unhandled,        \* scan paths whose promise was rejected with nothing to catch it
    userPreferences,  \* the userPreferences value of the sync tier
    performanceMetrics, \* the performanceMetrics value of the local tier
    errorLogWindow,   \* the errorLogs value of the session tier, as records with timestamps
    now,              \* Date.now()
    \* ---- extension pages and the toolbar
    popup,            \* React state of the popup
    optionsPage,      \* React state, theme and language of the options page
    badge,            \* badge text of the tab and the global badge text
    \* ---- history kept for the checks (not program state)
    lastEnded,        \* the handleNavigation run that ended last
    lastProcessingTime, \* processingTime of the measurement that changed the mode last
    lastScan,         \* the last processTextNodes run that finished
    regScans,         \* per element: processTextNodes runs since it was registered
    burst,            \* elements the mutation observer reported since handleMutations ran
    call              \* the last call of an operation under test, with its result

vars == << url, navCount, added, fillerCount, elementCount, mappings, processedCount,
           detectedKeys, options, observed, currentRepository, lastUrl, listening,
           processingCache, tasks, rescanTimers, pendingMutations,
           lastEnded, lastProcessingTime, lastScan, regScans,
           destroyed, stored, errorLogs, consoleErrors, unhandled, burst, call,
           userPreferences, performanceMetrics, errorLogWindow, now, popup,
           optionsPage, badge >>

\* what the scanning code reports errors to
errVars == << errorLogs, consoleErrors, unhandled >>

\* the store of the configuration, the teardown flag and the record of the last call
\* the preferences, the observability stores, the clock, the extension pages
\* and the badge
extVars == << userPreferences, performanceMetrics, errorLogWindow, now, popup,
             optionsPage, badge >>

cfgVars == << stored, destroyed, call, extVars >>

\* null of a repository name (repository names are pairs of path segments)
Null == <<>>

\* ------------------------------------------------------------------ bounds
\* plain text nodes under <main> in the page of the main specification
NumFiller == 51
\* navigations the page performs
MaxNavs == 1
\* largest number of plain text nodes of the batching specification
MaxBatchNodes == 300
\* concurrently suspended async functions
MaxTasks == 2
\* processTextNodes runs of the pass specification
MaxPasses == 2
\* processed text nodes after which the processor specification makes no new call
MaxProcessed == 2

\* F applied to the value of v, with v evaluated once (a local variable of the code)
Let(v, F(_)) == CHOOSE out \in { F(x) : x \in {v} } : TRUE

\* ------------------------------------------------------------------ characters
Digits == {"0", "1", "2", "3", "4", "5", "6", "7", "8", "9"}

UpperLetters == {"A", "I", "M", "P", "S", "W"}

LowerLetters == {"a", "b", "c", "e", "h", "i", "m", "o", "p", "r", "s", "t", "u", "w", "x"}

Letters == UpperLetters \cup LowerLetters

\* \w of the regular expression
IsWord(c) == c \in Digits \/ c \in Letters \/ c = "_"

\* String.prototype.trim() leaves something
TrimNonEmpty(s) == \E i \in 1..Len(s) : s[i] # " "

\* \b at offset i (0 <= i <= Len(text)): between text[i] and text[i+1]
WordBoundary(text, i) ==
    LET before == i >= 1 /\ IsWord(text[i])
        after == i < Len(text) /\ IsWord(text[i + 1])
    IN before # after

RECURSIVE DigitRun(_, _)
\* offset after the longest run of digits that starts at offset i
DigitRun(text, i) ==
    IF i < Len(text) /\ text[i + 1] \in Digits THEN DigitRun(text, i + 1) ELSE i

\* the pattern without its leading \b
MatchAt_noBoundary(keyPrefix, text, i) ==
    LET n == Len(keyPrefix)
        e == DigitRun(text, i + n + 1)
    IN IF /\ i + n + 1 <= Len(text)
          /\ SubSeq(text, i + 1, i + n) = keyPrefix
          /\ text[i + n + 1] = "-"
          /\ e > i + n + 1
          /\ WordBoundary(text, e)
       THEN e ELSE -1

\* a key prefix that is a regular-expression operator: the pattern built from
\* it is the alternation \b|-\d+\b, whose first branch matches the empty string
Bar == <<"|">>

\* GenericTracker.generatePattern(keyPrefix) tried at offset i: the offset after
\* the match of \bPREFIX-\d+\b that starts at i, or -1. \d+ is greedy and a
\* shorter run of digits never ends at a \b, so the longest run decides. The
\* prefix is not escaped: for Bar the first branch that matches at i decides.
MatchAt(keyPrefix, text, i) ==
    LET n == Len(keyPrefix)
        e == DigitRun(text, i + n + 1)
    IN IF keyPrefix = Bar
       THEN (IF WordBoundary(text, i) THEN i ELSE MatchAt_noBoundary(<<>>, text, i))
       ELSE
       IF /\ WordBoundary(text, i)
          /\ i + n + 1 <= Len(text)
          /\ SubSeq(text, i + 1, i + n) = keyPrefix
          /\ text[i + n + 1] = "-"
          /\ e > i + n + 1
          /\ WordBoundary(text, e)
       THEN e ELSE -1

RECURSIVE generatePattern_exec(_, _, _)
\* pattern.exec(text) of the global pattern with pattern.lastIndex = lastIndex:
\* the leftmost match at or after lastIndex as [index, end]; index -1 stands for
\* the null of a failed search
generatePattern_exec(keyPrefix, text, lastIndex) ==
    IF lastIndex > Len(text) THEN [index |-> -1, end |-> 0]
    ELSE IF MatchAt(keyPrefix, text, lastIndex) >= 0
         THEN [index |-> lastIndex, end |-> MatchAt(keyPrefix, text, lastIndex)]
         ELSE Let(lastIndex + 1, LAMBDA from : generatePattern_exec(keyPrefix, text, from))

\* ------------------------------------------------------------------ host page
\* The document: <body><main> ... </main></body>. Under <main>, in document
\* order: a text with the same key twice, an existing anchor, a code block, an
\* input, fillerCount plain text nodes, a text with two keys, a whitespace-only
\* text, and the subtrees the page inserts later (Addable): a plain block and an
\* editor, which holds a text and an empty line element.
\* document.body
BodyId == 1

\* document.querySelector('main')
MainId == 2

\* subtree roots the page may insert after load
Addable == {10, 14}

FillerIds == 101..(100 + fillerCount)

WMS == <<"W", "M", "S">>

API == <<"A", "P", "I">>

Key(prefix, digits) == prefix \o <<"-">> \o digits

ElementIds == {1, 2, 4, 6, 8, 10, 14, 16}

TextIds == {3, 5, 7, 9, 11, 12, 13, 15} \cup FillerIds

tagName(n) ==
    CASE n = 1 -> "body"
      [] n = 2 -> "main"
      [] n = 4 -> "a"
      [] n = 6 -> "code"
      [] n = 8 -> "input"
      [] n = 10 -> "div"
      [] n = 14 -> "div"
      [] n = 16 -> "span"
      [] OTHER -> "#text"

className(n) == IF n = 14 THEN "CodeMirror" ELSE ""

parentElement(n) ==
    CASE n = 1 -> 0
      [] n = 2 -> 1
      [] n = 5 -> 4
      [] n = 7 -> 6
      [] n = 9 -> 8
      [] n = 11 -> 10
      [] n = 15 -> 14
      [] n = 16 -> 14
      [] OTHER -> 2

\* Text.data of a text node
data(n) ==
    CASE n = 3 -> Key(WMS, <<"4", "2">>) \o <<" ">> \o Key(WMS, <<"4", "2">>)
      [] n = 5 -> Key(WMS, <<"7">>)
      [] n = 7 -> Key(WMS, <<"8">>)
      [] n = 9 -> Key(WMS, <<"9">>)
      [] n = 11 -> Key(WMS, <<"3">>)
      [] n = 12 -> Key(API, <<"1">>) \o <<" ">> \o Key(WMS, <<"4", "2">>)
      [] n = 13 -> <<" ">>
      [] n = 15 -> Key(WMS, <<"6">>)
      [] OTHER -> <<"x">>

Fillers == [i \in 1..fillerCount |-> 100 + i]

\* Node.childNodes, in document order
childNodes(n) ==
    CASE n = 1 -> <<2>>
      [] n = 2 -> <<3, 4, 6, 8>> \o Fillers \o <<12, 13>>
                  \o (IF 10 \in added THEN <<10>> ELSE <<>>)
                  \o (IF 14 \in added THEN <<14>> ELSE <<>>)
      [] n = 4 -> <<5>>
      [] n = 6 -> <<7>>
      [] n = 8 -> <<9>>
      [] n = 10 -> <<11>>
      [] n = 14 -> <<15, 16>>
      [] OTHER -> <<>>

RECURSIVE Flatten(_, _)
\* the nodes visited by a walk over the children ch of one element, in document
\* order, keeping those of the wanted kind (the walk over a long child list is
\* split in halves, which keeps the order)
Flatten(ch, wantText) ==
    IF ch = <<>> THEN <<>>
    ELSE IF Len(ch) = 1
    THEN (IF (ch[1] \in TextIds) = wantText THEN ch ELSE <<>>)
         \o Let(childNodes(ch[1]), LAMBDA c : Flatten(c, wantText))
    ELSE Let(SubSeq(ch, 1, Len(ch) \div 2), LAMBDA c : Flatten(c, wantText))
         \o Let(SubSeq(ch, (Len(ch) \div 2) + 1, Len(ch)), LAMBDA c : Flatten(c, wantText))

\* Node.textContent: the text of a text node; for an element the concatenation
\* of the text of its descendants in document order
RECURSIVE Concat(_)
Concat(ns) == IF ns = <<>> THEN <<>> ELSE data(Head(ns)) \o Concat(Tail(ns))

textContent(n) ==
    IF n \in TextIds THEN data(n)
    ELSE Let(childNodes(n), LAMBDA c : Let(Flatten(c, TRUE), Concat))

\* Element.querySelectorAll('a'): the anchor descendants, in document order
querySelectorAll_a(element) ==
    SelectSeq(Let(childNodes(element), LAMBDA c : Flatten(c, FALSE)),
              LAMBDA n : tagName(n) = "a")

\* ------------------------------------------------------------------ lib/utils
ExcludedTags == {"input", "textarea", "select", "button", "a", "code", "pre"}

ExcludedClasses == {"CodeMirror", "ace_editor", "monaco-editor"}

RECURSIVE closestExcluded(_)
\* element.closest(selector) !== null for some selector of excludeSelectors
closestExcluded(element) ==
    IF element = 0 THEN FALSE
    ELSE \/ tagName(element) \in ExcludedTags
         \/ className(element) \in ExcludedClasses
         \/ closestExcluded(parentElement(element))

shouldExcludeElement(element) == closestExcluded(element)

\* variant: the TreeWalker accepts the text of excluded elements
getTextNodes_all(element) ==
    SelectSeq(Let(childNodes(element), LAMBDA c : Flatten(c, TRUE)),
              LAMBDA n : TrimNonEmpty(data(n)))

\* the TreeWalker of getTextNodes: every text node under element in document
\* order, rejecting the empty ones and those in excluded elements
getTextNodes(element) ==
    SelectSeq(Let(childNodes(element), LAMBDA c : Flatten(c, TRUE)),
              LAMBDA n : TrimNonEmpty(data(n)) /\ ~shouldExcludeElement(parentElement(n)))

\* extractRepositoryFromUrl: the first two path segments, or null
extractRepositoryFromUrl(u) == IF Len(u) >= 2 THEN <<u[1], u[2]>> ELSE Null

\* ------------------------------------------------------------------ storage
R1 == <<"acme", "widgets">>

R2 == <<"acme", "other-repo">>

\* URLs are sequences of characters too
Https == <<"h", "t", "t", "p", "s", ":", "/", "/">>

AcmeCom == <<".", "a", "c", "m", "e", ".", "c", "o", "m">>

\* https://issues.acme.com
IssuesUrl == Https \o <<"i", "s", "s", "u", "e", "s">> \o AcmeCom

\* https://api.acme.com
ApiUrl == Https \o <<"a", "p", "i">> \o AcmeCom

\* https://other.acme.com
OtherUrl == Https \o <<"o", "t", "h", "e", "r">> \o AcmeCom

\* a RepositoryMapping (createdAt and updatedAt are never read)
Mapping(id, repository, trackerUrl, keyPrefix, enabled) ==
    [id |-> id, repository |-> repository, trackerUrl |-> trackerUrl,
     keyPrefix |-> keyPrefix, enabled |-> enabled]

\* the repository-mapping list of the local tier when the page is loaded
repositoryMappings ==
    << Mapping(1, R1, IssuesUrl, WMS, TRUE),
       Mapping(2, R1, ApiUrl, API, TRUE),
       Mapping(3, R2, OtherUrl, WMS, TRUE),
       Mapping(4, R2, ApiUrl, API, FALSE) >>

\* StorageManager.getRepositoryMappings: result.repositoryMappings || []
getRepositoryMappings == stored

\* StorageManager.getMappingForRepository
getMappingForRepository(repository) ==
    SelectSeq(getRepositoryMappings, LAMBDA m : m.repository = repository /\ m.enabled)

\* StorageManager.clearProcessingCache: delete cache[repository]
clearProcessingCache(cache, repository) == cache \ {repository}

\* ------------------------------------------------------------------ LinkProcessor
\* variant: the uniqueness test never finds the key
alreadyDetected_never(detected, key, mapping) == FALSE

\* the test of detectKeysInTextNode and detectKeysInExistingLinks:
\* this.detectedKeys.some(d => d.key === key && d.mapping.keyPrefix === mapping.keyPrefix)
alreadyDetected(detected, key, mapping) ==
    \E i \in 1..Len(detected) :
        detected[i].key = key /\ detected[i].mapping.keyPrefix = mapping.keyPrefix

\* variant: the cursor is left where exec put it
lastIndexAfter_asExec(match) == match.end

\* if (match.index === pattern.lastIndex) pattern.lastIndex++: the cursor
\* after an iteration of the loop over a match
lastIndexAfter(match) == IF match.index = match.end THEN match.end + 1 ELSE match.end

RECURSIVE execLoop(_, _, _, _)
\* the while ((match = pattern.exec(text)) !== null) loop of one mapping, from
\* pattern.lastIndex = lastIndex: push every match not yet detected
execLoop(detected, mapping, text, lastIndex) ==
    Let(generatePattern_exec(mapping.keyPrefix, text, lastIndex), LAMBDA match :
        LET key == SubSeq(text, match.index + 1, match.end)
            pushed == IF alreadyDetected(detected, key, mapping) THEN detected
                      ELSE Append(detected, [key |-> key, mapping |-> mapping])
            next == lastIndexAfter(match)
        IN IF match.index < 0 THEN detected
           ELSE Let(pushed, LAMBDA d : execLoop(d, mapping, text, next)))

\* new RegExp(`\\b${keyPrefix}-\\d+\\b`, 'g') throws a SyntaxError: of the
\* characters of the texts here only an opening parenthesis makes it throw
\* (an unterminated group)
patternThrows(keyPrefix) == \E i \in 1..Len(keyPrefix) : keyPrefix[i] = "("

\* the loop over this.mappings reaches a generatePattern call that throws
mapsThrow(maps) == \E i \in 1..Len(maps) : patternThrows(maps[i].keyPrefix)

RECURSIVE forMappings(_, _, _)
\* for (const mapping of this.mappings) { pattern.lastIndex = 0; while ... }
\* A generatePattern call that throws ends the loop; what was pushed stays.
forMappings(detected, maps, text) ==
    IF maps = <<>> \/ patternThrows(Head(maps).keyPrefix) THEN detected
    ELSE Let(Head(maps), LAMBDA mapping :
             Let(execLoop(detected, mapping, text, 0), LAMBDA d :
                 Let(Tail(maps), LAMBDA others : forMappings(d, others, text))))

RECURSIVE insideLink(_)
\* the parent walk of detectKeysInTextNode: some ancestor has tagName 'A'
insideLink(parent) ==
    IF parent = 0 THEN FALSE
    ELSE tagName(parent) = "a" \/ insideLink(parentElement(parent))

\* LinkProcessor.detectKeysInTextNode: this.detectedKeys afterwards
detectKeysInTextNode(detected, maps, textNode) ==
    IF data(textNode) = <<>> \/ parentElement(textNode) = 0 THEN detected
    ELSE IF insideLink(parentElement(textNode)) THEN detected
    ELSE Let(data(textNode), LAMBDA originalText : forMappings(detected, maps, originalText))

\* detectKeysInTextNode(textNode) throws: the text node reaches the loop over
\* the mappings and a pattern throws
textNodeThrows(maps, textNode) ==
    /\ mapsThrow(maps)
    /\ data(textNode) # <<>> /\ parentElement(textNode) # 0
    /\ ~insideLink(parentElement(textNode))

\* processBatch(textNodes) catches an error of some text node
batchThrows(maps, textNodes) ==
    /\ mapsThrow(maps)
    /\ \E i \in 1..Len(textNodes) : textNodeThrows(maps, textNodes[i])

\* detectKeysInExistingLinks(element) throws: some link has a text and a
\* pattern throws
linksThrow(maps, element) ==
    /\ mapsThrow(maps)
    /\ \E links \in {querySelectorAll_a(element)} :
           \E i \in 1..Len(links) : textContent(links[i]) # <<>>

RECURSIVE forLinks(_, _, _)
\* for (const link of links): the first link with a text ends the loop when a
\* pattern throws
forLinks(detected, maps, links) ==
    IF links = <<>> THEN detected
    ELSE Let(textContent(Head(links)), LAMBDA linkText :
             Let(IF linkText = <<>> THEN detected
                 ELSE forMappings(detected, maps, linkText),
                 LAMBDA d : IF linkText # <<>> /\ mapsThrow(maps) THEN d
                            ELSE Let(Tail(links), LAMBDA others : forLinks(d, maps, others))))

\* LinkProcessor.detectKeysInExistingLinks: this.detectedKeys afterwards
detectKeysInExistingLinks(detected, maps, element) ==
    forLinks(detected, maps, querySelectorAll_a(element))

RECURSIVE processBatch(_, _, _)
\* LinkProcessor.processBatch: this.detectedKeys after the text nodes of one
\* batch, taken in order (a long batch is split in halves, first half first)
processBatch(detected, maps, textNodes) ==
    IF textNodes = <<>> THEN detected
    ELSE IF Len(textNodes) = 1
    THEN Let(textNodes[1], LAMBDA textNode :
             IF data(textNode) = <<>> THEN detected
             ELSE detectKeysInTextNode(detected, maps, textNode))
    ELSE Let(Len(textNodes) \div 2, LAMBDA half :
             Let(SubSeq(textNodes, 1, half), LAMBDA front :
                 Let(processBatch(detected, maps, front), LAMBDA first :
                     Let(SubSeq(textNodes, half + 1, Len(textNodes)), LAMBDA rest :
                         processBatch(first, maps, rest)))))

\* the processedCount++ of processBatch, over one batch
processedIn(textNodes) == Len(SelectSeq(textNodes, LAMBDA n : data(n) # <<>>))

\* variant: a group begins with the last node of the group before it
slice_fromPrevious(textNodes, i, batchSize) ==
    SubSeq(textNodes, IF i = 0 THEN 1 ELSE i,
           IF i + batchSize < Len(textNodes) THEN i + batchSize ELSE Len(textNodes))

\* textNodes.slice(i, i + batchSize), i counted from 0
slice(textNodes, i, batchSize) ==
    SubSeq(textNodes, i + 1, IF i + batchSize < Len(textNodes) THEN i + batchSize
                             ELSE Len(textNodes))

RECURSIVE mapSet_byPrefix(_, _)
\* variant: the Map is keyed by item.mapping.keyPrefix
mapSet_byPrefix(unique, items) ==
    IF items = <<>> THEN unique
    ELSE LET item == Head(items)
             at == {i \in 1..Len(unique) :
                        unique[i].mapping.keyPrefix = item.mapping.keyPrefix}
         IN mapSet_byPrefix(IF at = {} THEN Append(unique, item)
                            ELSE [unique EXCEPT ![CHOOSE i \in at : TRUE] = item],
                            Tail(items))

RECURSIVE mapSet(_, _)
\* unique.set(item.key, item) for every item: a Map keeps the position of the
\* first insertion of a key and the value of the last
mapSet(unique, items) ==
    IF items = <<>> THEN unique
    ELSE LET item == Head(items)
             at == {i \in 1..Len(unique) : unique[i].key = item.key}
         IN mapSet(IF at = {} THEN Append(unique, item)
                   ELSE [unique EXCEPT ![CHOOSE i \in at : TRUE] = item],
                   Tail(items))

\* LinkProcessor.getUniqueDetectedKeys
getUniqueDetectedKeys(detected) == mapSet(<<>>, detected)

\* the thresholds of adaptToDocumentSize
SmallDocument == 1000

LargeDocument == 5000

\* variant: the thresholds compared with <=
adaptToDocumentSize_inclusive(n) ==
    IF n <= SmallDocument
    THEN [performanceMode |-> "comprehensive", maxProcessingTime |-> 100,
          batchSize |-> 100, useIntersectionObserver |-> FALSE]
    ELSE IF n <= LargeDocument
    THEN [performanceMode |-> "auto", maxProcessingTime |-> 500,
          batchSize |-> 50, useIntersectionObserver |-> FALSE]
    ELSE [performanceMode |-> "fast", maxProcessingTime |-> 200,
          batchSize |-> 25, useIntersectionObserver |-> TRUE]

\* LinkProcessor.adaptToDocumentSize: the options for a document of n elements
adaptToDocumentSize(n) ==
    IF n < SmallDocument
    THEN [performanceMode |-> "comprehensive", maxProcessingTime |-> 100,
          batchSize |-> 100, useIntersectionObserver |-> FALSE]
    ELSE IF n < LargeDocument
    THEN [performanceMode |-> "auto", maxProcessingTime |-> 500,
          batchSize |-> 50, useIntersectionObserver |-> FALSE]
    ELSE [performanceMode |-> "fast", maxProcessingTime |-> 200,
          batchSize |-> 25, useIntersectionObserver |-> TRUE]

\* the field initialiser of LinkProcessor.options
defaultOptions ==
    [performanceMode |-> "auto", maxProcessingTime |-> 500,
     batchSize |-> 50, useIntersectionObserver |-> FALSE]

\* new LinkProcessor() with no options argument
constructorOptions(n) ==
    IF defaultOptions.performanceMode = "auto" THEN adaptToDocumentSize(n)
    ELSE defaultOptions

\* ------------------------------------------------------------------ scans
\* document.querySelector('main') || document.body
contentElement == IF MainId \in ElementIds THEN MainId ELSE BodyId

\* the fields of a suspended async function; the unused ones keep these values
NoTask ==
    [kind |-> "none", pc |-> "none", after |-> "none", element |-> 0,
     textNodes |-> <<>>, i |-> 0, y |-> 0, queue |-> <<>>,
     old |-> Null, new |-> Null, snapshot |-> {}, read |-> <<>>, data |-> <<>>]

RemoveAt(seq, idx) == SubSeq(seq, 1, idx - 1) \o SubSeq(seq, idx + 1, Len(seq))

\* variant: the downgrade takes the whole row of a large document
measure_wholeRow(opts, processingTime) ==
    IF processingTime > opts.maxProcessingTime
    THEN adaptToDocumentSize(LargeDocument)
    ELSE opts

\* variant: the limit itself counts as too long
measure_atLimit(opts, processingTime) ==
    IF processingTime >= opts.maxProcessingTime
    THEN [opts EXCEPT !.performanceMode = "fast"]
    ELSE opts

\* the comparison at the end of processElementImmediately
measure(opts, processingTime) ==
    IF processingTime > opts.maxProcessingTime
    THEN [opts EXCEPT !.performanceMode = "fast"]
    ELSE opts

\* the end of processElementImmediately, having measured processingTime
Measured(processingTime) ==
    /\ options' = measure(options, processingTime)
    /\ lastProcessingTime' = IF measure(options, processingTime) # options
                             THEN processingTime ELSE lastProcessingTime

\* elapsed times a processElementImmediately call may measure: on the limit and over it
ProcessingTimes == {options.maxProcessingTime, options.maxProcessingTime + 1}

\* variant: the yield test of the loop compared with <=
processTextNodes_yieldAtEnd(detected, maps, opts, element) ==
    Let(getTextNodes(element), LAMBDA textNodes :
        Let(slice(textNodes, 0, opts.batchSize), LAMBDA batch :
            Let(linksThrow(maps, element), LAMBDA thrown :
                [textNodes |-> textNodes,
                 detected |-> Let(detectKeysInExistingLinks(detected, maps, element),
                                  LAMBDA d : IF thrown THEN d
                                             ELSE processBatch(d, maps, batch)),
                 processed |-> IF thrown THEN 0 ELSE processedIn(batch),
                 more |-> ~thrown /\ opts.batchSize <= Len(textNodes),
                 thrown |-> thrown,
                 caught |-> ~thrown /\ batchThrows(maps, batch)])))

\* processTextNodes(element) up to its first suspension: the existing-link pass
\* and the first batch; more says that a setTimeout(resolve, 1) follows, thrown
\* that the existing-link pass threw (the promise is rejected before any
\* batch), caught that processBatch caught an error of a text node
processTextNodes(detected, maps, opts, element) ==
    Let(getTextNodes(element), LAMBDA textNodes :
        Let(slice(textNodes, 0, opts.batchSize), LAMBDA batch :
            Let(linksThrow(maps, element), LAMBDA thrown :
                [textNodes |-> textNodes,
                 detected |-> Let(detectKeysInExistingLinks(detected, maps, element),
                                  LAMBDA d : IF thrown THEN d
                                             ELSE processBatch(d, maps, batch)),
                 processed |-> IF thrown THEN 0 ELSE processedIn(batch),
                 more |-> ~thrown /\ opts.batchSize < Len(textNodes),
                 thrown |-> thrown,
                 caught |-> ~thrown /\ batchThrows(maps, batch)])))

\* the continuation of processTextNodes after its setTimeout(resolve, 1):
\* i += batchSize and the next batch
nextBatch(detected, maps, opts, t) ==
    Let(t.i + opts.batchSize, LAMBDA i :
        Let(slice(t.textNodes, i, opts.batchSize), LAMBDA batch :
            [i |-> i,
             detected |-> processBatch(detected, maps, batch),
             processed |-> processedIn(batch),
             more |-> i + opts.batchSize < Len(t.textNodes),
             caught |-> batchThrows(maps, batch)]))

ScanRecord(element, textNodes, y) ==
    [element |-> element, nodes |-> Len(textNodes), batchSize |-> options.batchSize,
     yields |-> y]

\* console.error('Error processing text node:', error) of processBatch
TextNodeError == "Error processing text node"

\* console.error('Error processing element:', error) of processElement
ElementError == "Error processing element"

\* the console after processBatch caught an error (caught) and after the catch
\* of processElement ran (thrown)
consoleAfter(caught, thrown) ==
    consoleErrors \cup (IF caught THEN {TextNodeError} ELSE {})
                  \cup (IF thrown THEN {ElementError} ELSE {})

\* ContentScript.logError(message, error): storage.addErrorLog and console.error
logError(message) ==
    /\ errorLogs' = errorLogs \cup {message}
    /\ consoleErrors' = consoleErrors \cup {message}

\* variant: processElement tests only that mappings are configured
processElementPath_anyElement(maps, element) ==
    IF maps = <<>> THEN "return"
    ELSE IF options.useIntersectionObserver THEN "observe"
    ELSE IF options.performanceMode = "fast" THEN "idle"
    ELSE "scan"

\* what processElement(element) does before it returns or suspends
processElementPath(maps, element) ==
    IF maps = <<>> \/ shouldExcludeElement(element) THEN "return"
    ELSE IF options.useIntersectionObserver THEN "observe"
    ELSE IF options.performanceMode = "fast" THEN "idle"
    ELSE "scan"

\* an async function that has returned is dropped: handleMutations when its
\* loop has no element left
Settle(t) == IF t.pc = "next" /\ t.queue = <<>> THEN <<>> ELSE <<t>>

\* tasks with the caller at idx replaced by ts (appended when idx = 0)
Put(idx, ts) ==
    IF idx = 0 THEN tasks \o ts
    ELSE SubSeq(tasks, 1, idx - 1) \o ts \o SubSeq(tasks, idx + 1, Len(tasks))

\* processElement(element) called by the async function caller, which goes on at
\* pc after when the call returns; idx is the place of the caller in tasks, 0 if
\* it is not there yet; maps is this.mappings. One step, up to the first
\* suspension of the call.
processElement(idx, caller, maps, element, after) ==
    LET path == processElementPath(maps, element)
        back == [caller EXCEPT !.pc = after, !.after = "none", !.element = 0,
                               !.textNodes = <<>>, !.i = 0, !.y = 0]
    IN CASE path = "return" ->
              /\ tasks' = Put(idx, Settle(back))
              /\ UNCHANGED << detectedKeys, processedCount, options, observed,
                              lastProcessingTime, lastScan, regScans, consoleErrors >>
         [] path = "observe" ->
              /\ observed' = observed \cup {element}
              /\ regScans' = IF element \in observed THEN regScans
                             ELSE [regScans EXCEPT ![element] = 0]
              /\ tasks' = Put(idx, Settle(back))
              /\ UNCHANGED << detectedKeys, processedCount, options,
                              lastProcessingTime, lastScan, consoleErrors >>
         [] path = "idle" ->
              \E processingTime \in ProcessingTimes :
                  /\ tasks' = Put(idx, Settle(back)
                                       \o << [NoTask EXCEPT !.kind = "idle", !.pc = "idle",
                                                            !.element = element] >>)
                  /\ Measured(processingTime)
                  /\ UNCHANGED << detectedKeys, processedCount, observed, lastScan,
                                  regScans, consoleErrors >>
         [] OTHER ->
              \E r \in {processTextNodes(detectedKeys, maps, options, element)} :
                 /\ detectedKeys' = r.detected
                 /\ processedCount' = processedCount + r.processed
                 /\ consoleErrors' = consoleAfter(r.caught, r.thrown)
                 /\ UNCHANGED << observed, regScans >>
                 /\ IF r.thrown
                    THEN \* the catch of processElement: the measurement is skipped
                         /\ tasks' = Put(idx, Settle(back))
                         /\ UNCHANGED << options, lastProcessingTime, lastScan >>
                    ELSE IF r.more
                    THEN /\ tasks' = Put(idx, << [caller EXCEPT
                                !.pc = "sleep", !.after = after, !.element = element,
                                !.textNodes = r.textNodes, !.i = 0, !.y = 1] >>)
                         /\ UNCHANGED << options, lastProcessingTime, lastScan >>
                    ELSE \E processingTime \in ProcessingTimes :
                         /\ tasks' = Put(idx, Settle(back))
                         /\ Measured(processingTime)
                         /\ lastScan' = ScanRecord(element, r.textNodes, 0)

\* processTextNodes(element) called without await, from the idle callback of
\* fast mode or from the intersection callback. One step, up to its first
\* suspension; idx is the place of the idle callback in tasks, 0 if none.
\* Nothing awaits or catches the promise: a rejection is unhandled.
detachedScan(idx, element) ==
    \E r \in {processTextNodes(detectedKeys, mappings, options, element)} :
       /\ detectedKeys' = r.detected
       /\ processedCount' = processedCount + r.processed
       /\ consoleErrors' = consoleAfter(r.caught, FALSE)
       /\ unhandled' = IF r.thrown
                       THEN unhandled \cup {IF idx = 0 THEN "intersection" ELSE "idle"}
                       ELSE unhandled
       /\ IF r.thrown
          THEN /\ tasks' = Put(idx, <<>>)
               /\ UNCHANGED lastScan
          ELSE IF r.more
          THEN /\ tasks' = Put(idx, << [NoTask EXCEPT
                      !.kind = "detached", !.pc = "sleep", !.after = "done",
                      !.element = element, !.textNodes = r.textNodes, !.y = 1] >>)
               /\ UNCHANGED lastScan
          ELSE /\ tasks' = Put(idx, <<>>)
               /\ lastScan' = ScanRecord(element, r.textNodes, 0)

pageVars == << url, navCount, added, fillerCount, elementCount >>

navVars == << currentRepository, lastUrl, listening, processingCache, rescanTimers,
             lastEnded >>

\* ------------------------------------------------------------------ steps of a scan
\* the setTimeout(resolve, 1) of a processTextNodes run fires: the next batch,
\* then either the next timer or the end of the run and of what awaited it
BatchWake(idx) ==
    /\ tasks[idx].pc = "sleep"
    /\ \E t \in {tasks[idx]}, r \in {nextBatch(detectedKeys, mappings, options, tasks[idx])} :
       LET back == [t EXCEPT !.pc = t.after, !.after = "none", !.element = 0,
                             !.textNodes = <<>>, !.i = 0, !.y = 0]
       IN /\ detectedKeys' = r.detected
          /\ processedCount' = processedCount + r.processed
          /\ consoleErrors' = consoleAfter(r.caught, FALSE)
          /\ IF r.more
             THEN /\ tasks' = [tasks EXCEPT ![idx] = [t EXCEPT !.i = r.i, !.y = t.y + 1]]
                  /\ UNCHANGED << options, lastProcessingTime, lastScan >>
             ELSE /\ lastScan' = ScanRecord(t.element, t.textNodes, t.y)
                  /\ IF t.kind = "detached"
                     THEN /\ tasks' = RemoveAt(tasks, idx)
                          /\ UNCHANGED << options, lastProcessingTime >>
                     ELSE \E processingTime \in ProcessingTimes :
                          /\ tasks' = Put(idx, Settle(back))
                          /\ Measured(processingTime)
    /\ UNCHANGED << pageVars, navVars, mappings, observed, pendingMutations, regScans,
                    errorLogs, unhandled, cfgVars, burst >>

\* the idle callback queued by processElementImmediately in fast mode runs
IdleCallback(idx) ==
    /\ tasks[idx].pc = "idle"
    /\ detachedScan(idx, tasks[idx].element)
    /\ UNCHANGED << pageVars, navVars, mappings, options, observed, pendingMutations,
                    lastProcessingTime, regScans, errorLogs, cfgVars, burst >>

\* variant: the callback leaves the target registered
IntersectionCallback_keepObserving(target, isIntersecting) ==
    /\ target \in observed
    /\ IF isIntersecting
       THEN /\ Len(tasks) < MaxTasks
            /\ detachedScan(0, target)
            /\ regScans' = [regScans EXCEPT ![target] = IF @ < 2 THEN @ + 1 ELSE @]
            /\ UNCHANGED observed
       ELSE UNCHANGED << detectedKeys, processedCount, tasks, lastScan, observed,
                         regScans, consoleErrors, unhandled >>
    /\ UNCHANGED << pageVars, navVars, mappings, options, pendingMutations,
                    lastProcessingTime, errorLogs, cfgVars, burst >>

\* the callback of setupIntersectionObserver, for one entry
IntersectionCallback(target, isIntersecting) ==
    /\ target \in observed
    /\ IF isIntersecting
       THEN /\ Len(tasks) < MaxTasks
            /\ detachedScan(0, target)
            /\ observed' = observed \ {target}
            /\ regScans' = [regScans EXCEPT ![target] = IF @ < 2 THEN @ + 1 ELSE @]
       ELSE UNCHANGED << detectedKeys, processedCount, tasks, lastScan, observed,
                         regScans, consoleErrors, unhandled >>
    /\ UNCHANGED << pageVars, navVars, mappings, options, pendingMutations,
                    lastProcessingTime, errorLogs, cfgVars, burst >>

\* ------------------------------------------------------------------ ContentScript.init
\* the messages of the catch blocks of init and handleNavigation
InitFailed == "Failed to initialize content script"

NavigationFailed == "Failed to handle navigation"

scanVars == << detectedKeys, processedCount, options, observed, lastProcessingTime,
               lastScan, regScans >>

\* variant: init goes on whatever preferences.enabled is
InitPrefs_anyPreference(idx, ok) ==
    /\ tasks[idx].kind = "init" /\ tasks[idx].pc = "prefs"
    /\ tasks' = IF ok THEN [tasks EXCEPT ![idx].pc = "mappings"]
                ELSE RemoveAt(tasks, idx)
    /\ IF ok THEN UNCHANGED << errorLogs, consoleErrors >> ELSE logError(InitFailed)
    /\ UNCHANGED << pageVars, navVars, scanVars, mappings, pendingMutations,
                    unhandled, cfgVars, burst >>

\* init after await storage.getUserPreferences(); a rejected promise ends init
\* in its catch, and init returns when preferences.enabled is false
InitPrefs(idx, ok) ==
    /\ tasks[idx].kind = "init" /\ tasks[idx].pc = "prefs"
    /\ tasks' = IF ok /\ userPreferences.enabled THEN [tasks EXCEPT ![idx].pc = "mappings"]
                ELSE RemoveAt(tasks, idx)
    /\ IF ok THEN UNCHANGED << errorLogs, consoleErrors >> ELSE logError(InitFailed)
    /\ UNCHANGED << pageVars, navVars, scanVars, mappings, pendingMutations,
                    unhandled, cfgVars, burst >>

\* init after await storage.getMappingForRepository(this.currentRepository):
\* setMappings and processInitialContent up to its first suspension. setMappings
\* assigns this.mappings and then builds every pattern; one that throws ends
\* init in its catch.
InitMappings(idx, ok) ==
    /\ tasks[idx].kind = "init" /\ tasks[idx].pc = "mappings"
    /\ \E found \in {getMappingForRepository(currentRepository)} :
          IF ok /\ found # <<>> /\ ~mapsThrow(found)
          THEN /\ mappings' = found
               /\ processElement(idx, tasks[idx], found, contentElement, "metric")
               /\ UNCHANGED errorLogs
          ELSE /\ tasks' = RemoveAt(tasks, idx)
               /\ mappings' = IF ok /\ found # <<>> THEN found ELSE mappings
               /\ IF ok /\ found = <<>> THEN UNCHANGED << errorLogs, consoleErrors >>
                  ELSE logError(InitFailed)
               /\ UNCHANGED scanVars
    /\ UNCHANGED << pageVars, navVars, pendingMutations, unhandled, cfgVars, burst >>

\* processInitialContent after await storage.addPerformanceMetric(...), and for
\* init the setupMutationObserver and setupNavigationListener that follow
ContentDone(idx) ==
    /\ tasks[idx].pc = "metric"
    /\ tasks' = RemoveAt(tasks, idx)
    /\ IF tasks[idx].kind = "init"
       THEN listening' = TRUE /\ lastUrl' = url
       ELSE UNCHANGED << listening, lastUrl >>
    /\ UNCHANGED << pageVars, scanVars, mappings, pendingMutations, currentRepository,
                    processingCache, rescanTimers, lastEnded, errVars, cfgVars, burst >>

\* ------------------------------------------------------------------ mutations
\* the subtree roots of rs in document order
InOrder(rs) == SelectSeq(<<10, 14>>, LAMBDA r : r \in rs)

\* a MutationRecord: its type and its addedNodes
MutationRecord(type, addedNodes) == [type |-> type, addedNodes |-> addedNodes]

\* Node.nodeType
nodeType(n) == IF n \in TextIds THEN "TEXT_NODE" ELSE "ELEMENT_NODE"

\* mutations.filter(...) of handleMutations
relevantMutations(mutations) ==
    SelectSeq(mutations, LAMBDA m : m.type = "childList" /\ Len(m.addedNodes) > 0)

RECURSIVE addedElements_anyNode(_)
\* variant: the loops hand every added node on
addedElements_anyNode(relevant) ==
    IF relevant = <<>> THEN <<>>
    ELSE Head(relevant).addedNodes \o addedElements_anyNode(Tail(relevant))

RECURSIVE addedElements(_)
\* the nodes the loops of handleMutations hand to processElement, in order
addedElements(relevant) ==
    IF relevant = <<>> THEN <<>>
    ELSE SelectSeq(Head(relevant).addedNodes, LAMBDA n : nodeType(n) = "ELEMENT_NODE")
         \o addedElements(Tail(relevant))

\* handleMutations(mutations) up to its first suspension
handleMutations(mutations) ==
    \E queue \in {addedElements(relevantMutations(mutations))} :
        IF queue = <<>>
        THEN UNCHANGED << tasks, detectedKeys, processedCount, options, observed,
                          lastProcessingTime, lastScan, regScans, consoleErrors >>
        ELSE processElement(0, [NoTask EXCEPT !.kind = "mutations", !.queue = Tail(queue)],
                            mappings, Head(queue), "next")

\* handleMutations after an await this.linkProcessor.processElement(node): the
\* next node of its loops
nextAddedNode(idx) ==
    /\ tasks[idx].pc = "next" /\ tasks[idx].queue # <<>>
    /\ processElement(idx, [tasks[idx] EXCEPT !.queue = Tail(@)], mappings,
                      Head(tasks[idx].queue), "next")

\* the page inserts the subtrees rs in one task; the debounced handler of the
\* mutation observer keeps the records of this callback, one per subtree, and
\* restarts its 100 ms timer
AddNodes(rs) ==
    /\ rs # {}
    /\ rs \cap added = {}
    /\ added' = added \cup rs
    /\ pendingMutations' =
           IF listening /\ ~destroyed
           THEN [i \in 1..Len(InOrder(rs)) |-> MutationRecord("childList", << InOrder(rs)[i] >>)]
           ELSE pendingMutations
    /\ burst' = IF listening /\ ~destroyed THEN burst \cup rs ELSE burst
    /\ UNCHANGED << url, navCount, fillerCount, elementCount, navVars, scanVars,
                    mappings, tasks, errVars, cfgVars >>

\* the debounce timer fires: handleMutations up to its first suspension
MutationTimer ==
    /\ pendingMutations # <<>>
    /\ Len(tasks) < MaxTasks
    /\ pendingMutations' = <<>>
    /\ burst' = {}
    /\ handleMutations(pendingMutations)
    /\ UNCHANGED << pageVars, navVars, mappings, errorLogs, unhandled, cfgVars >>

\* handleMutations after an await this.linkProcessor.processElement(node)
MutationsNext(idx) ==
    /\ nextAddedNode(idx)
    /\ UNCHANGED << pageVars, navVars, mappings, pendingMutations, errorLogs,
                    unhandled, cfgVars, burst >>

\* ------------------------------------------------------------------ navigation
Urls == { <<"acme", "widgets">>, <<"acme", "widgets", "issues">>,
          <<"acme", "other-repo">>, <<"settings">> }

\* LinkProcessor.reset
reset ==
    /\ processedCount' = 0
    /\ detectedKeys' = <<>>

\* a handleNavigation run that found the repository old, the location of new
\* and that ended: failed in its catch, or else after its last statement,
\* if (this.currentRepository) setTimeout(..., 500), with this.currentRepository
\* being repository. cleared and replaced say what it left in the store and in
\* the LinkProcessor.
EndNavigation(old, new, failed, repository, cache, maps) ==
    /\ lastEnded' = [old |-> old, new |-> new, failed |-> failed,
                     repository |-> repository,
                     scheduled |-> ~failed /\ repository # Null,
                     cleared |-> old \notin cache,
                     replaced |-> maps = getMappingForRepository(new)]
    /\ rescanTimers' = IF ~failed /\ repository # Null THEN rescanTimers + 1
                       ELSE rescanTimers

\* handleNavigation after its reset() and up to its first suspension, for the
\* location href
repositoryCheck(href) ==
    LET newRepository == extractRepositoryFromUrl(href)
        run == [NoTask EXCEPT !.kind = "navigation", !.old = currentRepository,
                              !.new = newRepository]
    IN IF newRepository # currentRepository
       THEN IF currentRepository # Null
            THEN /\ tasks' = Append(tasks, [run EXCEPT !.pc = "cacheGet"])
                 /\ UNCHANGED << currentRepository, rescanTimers, lastEnded >>
            ELSE /\ currentRepository' = newRepository
                 /\ tasks' = Append(tasks, [run EXCEPT !.pc = "fetch"])
                 /\ UNCHANGED << rescanTimers, lastEnded >>
       ELSE /\ EndNavigation(currentRepository, newRepository, FALSE,
                             currentRepository, processingCache, mappings)
            /\ UNCHANGED << currentRepository, tasks >>

\* the reset of the draft that clears only when the repository changed
handleNavigation_resetOnChange(href) ==
    /\ IF extractRepositoryFromUrl(href) # currentRepository THEN reset
       ELSE UNCHANGED << processedCount, detectedKeys >>
    /\ repositoryCheck(href)

\* handleNavigation up to its first suspension, for the location href
handleNavigation(href) ==
    /\ reset
    /\ repositoryCheck(href)

\* the page changes its location with history.pushState or replaceState
NavigatePush(u) ==
    /\ navCount < MaxNavs
    /\ u # url
    /\ url' = u
    /\ navCount' = navCount + 1
    /\ UNCHANGED << added, fillerCount, elementCount, navVars, scanVars, mappings,
                    tasks, pendingMutations, errVars, cfgVars, burst >>

\* the user goes back or forward: the location changes and popstate is
\* dispatched to the listener, which is handleNavigation itself
NavigatePop(u) ==
    /\ navCount < MaxNavs
    /\ u # url
    /\ url' = u
    /\ navCount' = navCount + 1
    /\ IF listening
       THEN /\ Len(tasks) < MaxTasks
            /\ handleNavigation(u)
       ELSE UNCHANGED << currentRepository, rescanTimers, lastEnded, detectedKeys,
                         processedCount, tasks >>
    /\ UNCHANGED << added, fillerCount, elementCount, lastUrl, listening,
                    processingCache, mappings, options, observed, pendingMutations,
                    lastProcessingTime, lastScan, regScans, errVars, cfgVars, burst >>

\* checkUrlChange, run by the navigation mutation observer, by the timers of
\* the patched pushState and replaceState and by the 1 s poll
CheckUrlChange ==
    /\ listening
    /\ url # lastUrl
    /\ Len(tasks) < MaxTasks
    /\ lastUrl' = url
    /\ handleNavigation(url)
    /\ UNCHANGED << pageVars, listening, processingCache, mappings, options, observed,
                    pendingMutations, lastProcessingTime, lastScan, regScans,
                    errVars, cfgVars, burst >>

\* clearProcessingCache after await chrome.storage.session.get('processingCache')
NavCacheGet(idx, ok) ==
    /\ tasks[idx].pc = "cacheGet"
    /\ IF ok
       THEN /\ tasks' = [tasks EXCEPT ![idx].pc = "cacheSet",
                                      ![idx].snapshot = processingCache]
            /\ UNCHANGED << lastEnded, rescanTimers, errorLogs, consoleErrors >>
       ELSE /\ tasks' = RemoveAt(tasks, idx)
            /\ EndNavigation(tasks[idx].old, tasks[idx].new, TRUE, currentRepository,
                             processingCache, mappings)
            /\ logError(NavigationFailed)
    /\ UNCHANGED << pageVars, detectedKeys, processedCount, options, observed,
                    lastProcessingTime, lastScan, regScans, mappings, pendingMutations,
                    currentRepository, lastUrl, listening, processingCache,
                    unhandled, cfgVars, burst >>

\* clearProcessingCache after await chrome.storage.session.set(...), and
\* handleNavigation after it: this.currentRepository = newRepository
NavCacheSet(idx, ok) ==
    /\ tasks[idx].pc = "cacheSet"
    /\ LET t == tasks[idx]
           cache == clearProcessingCache(t.snapshot, t.old)
       IN IF ok
          THEN /\ processingCache' = cache
               /\ currentRepository' = t.new
               /\ IF t.new # Null
                  THEN /\ tasks' = [tasks EXCEPT ![idx].pc = "fetch"]
                       /\ UNCHANGED << lastEnded, rescanTimers >>
                  ELSE /\ tasks' = RemoveAt(tasks, idx)
                       /\ EndNavigation(t.old, t.new, FALSE, t.new, cache, mappings)
               /\ UNCHANGED << errorLogs, consoleErrors >>
          ELSE /\ tasks' = RemoveAt(tasks, idx)
               /\ EndNavigation(t.old, t.new, TRUE, currentRepository, processingCache,
                                mappings)
               /\ logError(NavigationFailed)
               /\ UNCHANGED << processingCache, currentRepository >>
    /\ UNCHANGED << pageVars, detectedKeys, processedCount, options, observed,
                    lastProcessingTime, lastScan, regScans, mappings, pendingMutations,
                    lastUrl, listening, unhandled, cfgVars, burst >>

\* handleNavigation after await storage.getMappingForRepository(...):
\* setMappings, which assigns this.mappings and then builds every pattern; one
\* that throws ends handleNavigation in its catch
NavFetch(idx, ok) ==
    /\ tasks[idx].pc = "fetch"
    /\ LET t == tasks[idx]
           maps == IF ok THEN getMappingForRepository(t.new) ELSE mappings
           failed == ~ok \/ mapsThrow(maps)
       IN /\ tasks' = RemoveAt(tasks, idx)
          /\ mappings' = maps
          /\ EndNavigation(t.old, t.new, failed, currentRepository, processingCache,
                           maps)
          /\ IF failed THEN logError(NavigationFailed)
             ELSE UNCHANGED << errorLogs, consoleErrors >>
    /\ UNCHANGED << pageVars, detectedKeys, processedCount, options, observed,
                    lastProcessingTime, lastScan, regScans, pendingMutations,
                    currentRepository, lastUrl, listening, processingCache,
                    unhandled, cfgVars, burst >>

\* a 500 ms timer of handleNavigation fires: processInitialContent up to its
\* first suspension
RescanTimer ==
    /\ rescanTimers > 0
    /\ Len(tasks) < MaxTasks
    /\ rescanTimers' = rescanTimers - 1
    /\ processElement(0, [NoTask EXCEPT !.kind = "rescan"], mappings,
                      contentElement, "metric")
    /\ UNCHANGED << pageVars, mappings, pendingMutations, currentRepository, lastUrl,
                    listening, processingCache, lastEnded, errorLogs, unhandled,
                    cfgVars, burst >>

\* handleGetDetectedKeys: the reply to a GET_DETECTED_KEYS message
handleGetDetectedKeys ==
    IF currentRepository = Null
    THEN [success |-> FALSE, repository |-> Null, keys |-> <<>>]
    ELSE [success |-> TRUE, repository |-> currentRepository,
          keys |-> getUniqueDetectedKeys(detectedKeys)]

\* ------------------------------------------------------------------ specification
\* element counts around the thresholds of adaptToDocumentSize
ElementCounts == {1000, 5000}

NoNavigation ==
    [old |-> Null, new |-> Null, failed |-> FALSE, repository |-> Null,
     scheduled |-> FALSE, cleared |-> TRUE, replaced |-> TRUE]

NoScan == [element |-> 0, nodes |-> 0, batchSize |-> 0, yields |-> 0]

\* the sequence in the opposite order
Reverse(s) == [i \in 1..Len(s) |-> s[Len(s) + 1 - i]]

NoCall == [fn |-> "none", a |-> <<>>, b |-> <<>>, out |-> <<>>]

\* getUserPreferences when the sync tier has no value; no language is stored
\* until one is chosen
defaultPreferences ==
    [enabled |-> TRUE, theme |-> "system", language |-> "unset"]

\* an extension page that is not open: its React state (preferences and
\* detectedKeys; interactive says that it takes input), the theme of its
\* ThemeProvider and the language of its i18n instance
ClosedPage ==
    [open |-> FALSE, interactive |-> FALSE, preferences |-> defaultPreferences,
     detectedKeys |-> <<>>, theme |-> "system", language |-> "en"]

\* badge text '' of the tab and of the toolbar
NoBadge == [tab |-> <<>>, global |-> <<>>]

\* the extension after installation: default preferences, empty observability
\* stores, no extension page open, no badge
InstalledWith(metrics, logs) ==
    /\ userPreferences = defaultPreferences
    /\ performanceMetrics = metrics
    /\ errorLogWindow = logs
    /\ now = 0
    /\ popup = ClosedPage
    /\ optionsPage = ClosedPage
    /\ badge = NoBadge

Installed == InstalledWith(<<>>, <<>>)

\* the store, the error sinks and the history when the page is loaded, with
\* list in the local tier
Loaded(list) ==
    /\ Installed
    /\ stored = list
    /\ destroyed = FALSE
    /\ errorLogs = {}
    /\ consoleErrors = {}
    /\ unhandled = {}
    /\ burst = {}
    /\ call = NoCall

\* the same with observability stores that already hold records
LoadedWith(list, metrics, logs) ==
    /\ InstalledWith(metrics, logs)
    /\ stored = list
    /\ destroyed = FALSE
    /\ errorLogs = {}
    /\ consoleErrors = {}
    /\ unhandled = {}
    /\ burst = {}
    /\ call = [NoCall EXCEPT !.a = Reverse(metrics), !.b = Reverse(logs)]

\* the state after new ContentScript(): the LinkProcessor is constructed and
\* init has run up to await storage.getUserPreferences()
InitWith(u, n, fill) ==
    /\ url = u
    /\ navCount = 0
    /\ added = {}
    /\ fillerCount = fill
    /\ elementCount = n
    /\ mappings = <<>>
    /\ processedCount = 0
    /\ detectedKeys = <<>>
    /\ options = constructorOptions(n)
    /\ observed = {}
    /\ currentRepository = extractRepositoryFromUrl(u)
    /\ lastUrl = u
    /\ listening = FALSE
    /\ processingCache = {R1, R2}
    /\ tasks = IF extractRepositoryFromUrl(u) # Null
               THEN << [NoTask EXCEPT !.kind = "init", !.pc = "prefs"] >>
               ELSE <<>>
    /\ rescanTimers = 0
    /\ pendingMutations = <<>>
    /\ lastEnded = NoNavigation
    /\ lastProcessingTime = 0
    /\ lastScan = NoScan
    /\ regScans = [e \in ElementIds |-> 0]

\* the locations the page is loaded at
InitUrls == { <<"acme", "widgets">>, <<"settings">> }

Init ==
    /\ Loaded(repositoryMappings)
    /\ \E u \in InitUrls, n \in ElementCounts : InitWith(u, n, NumFiller)

Next ==
    \/ \E idx \in 1..Len(tasks), ok \in BOOLEAN : InitPrefs(idx, ok)
    \/ \E idx \in 1..Len(tasks), ok \in BOOLEAN : InitMappings(idx, ok)
    \/ \E idx \in 1..Len(tasks) : ContentDone(idx)
    \/ \E idx \in 1..Len(tasks) : BatchWake(idx)
    \/ \E idx \in 1..Len(tasks) : IdleCallback(idx)
    \/ \E target \in ElementIds, isIntersecting \in BOOLEAN :
           IntersectionCallback(target, isIntersecting)
    \/ \E rs \in SUBSET Addable : AddNodes(rs)
    \/ MutationTimer
    \/ \E idx \in 1..Len(tasks) : MutationsNext(idx)
    \/ \E u \in Urls : NavigatePush(u)
    \/ \E u \in Urls : NavigatePop(u)
    \/ CheckUrlChange
    \/ \E idx \in 1..Len(tasks), ok \in BOOLEAN : NavCacheGet(idx, ok)
    \/ \E idx \in 1..Len(tasks), ok \in BOOLEAN : NavCacheSet(idx, ok)
    \/ \E idx \in 1..Len(tasks), ok \in BOOLEAN : NavFetch(idx, ok)
    \/ RescanTimer

Spec == Init /\ [][Next]_vars

\* ------------------------------------------------------------------ batching specification
\* element counts on both sides of the thresholds of adaptToDocumentSize
BoundaryCounts == {SmallDocument - 1, SmallDocument, LargeDocument - 1, LargeDocument}

\* filler counts that give <main> a number of accepted text nodes (the fillers
\* and the two texts with keys) next to a multiple of the smallest batch size
BatchFillers == {k \in 0..(MaxBatchNodes - 2) : (k + 2) % 25 \in {24, 0, 1}}

\* a repository page of any of these sizes is loaded
InitBatch ==
    /\ Loaded(repositoryMappings)
    /\ \E n \in BoundaryCounts, k \in BatchFillers :
           InitWith(<<"acme", "widgets">>, n, k)

\* the initial scan alone: init, the batches, and the intersection callback of
\* a large document
NextBatch ==
    \/ \E idx \in 1..Len(tasks), ok \in BOOLEAN : InitPrefs(idx, ok)
    \/ \E idx \in 1..Len(tasks), ok \in BOOLEAN : InitMappings(idx, ok)
    \/ \E idx \in 1..Len(tasks) : ContentDone(idx)
    \/ \E idx \in 1..Len(tasks) : BatchWake(idx)
    \/ \E target \in ElementIds, isIntersecting \in BOOLEAN :
           IntersectionCallback(target, isIntersecting)

SpecBatch == InitBatch /\ [][NextBatch]_vars

\* ------------------------------------------------------------------ pass specification
RECURSIVE finish(_, _, _, _)
\* the remaining batches of a processTextNodes run that no other task
\* interleaves with: r is what the batches so far gave, t.i the loop index and
\* t.y the number of setTimeout(resolve, 1) awaited
finish(r, maps, opts, t) ==
    IF ~r.more
    THEN [detected |-> r.detected, processed |-> r.processed,
          textNodes |-> t.textNodes, y |-> t.y]
    ELSE Let(nextBatch(r.detected, maps, opts, t), LAMBDA n :
             Let([t EXCEPT !.i = n.i, !.y = t.y + 1], LAMBDA u :
                 finish([n EXCEPT !.processed = r.processed + n.processed],
                        maps, opts, u)))

\* one whole processTextNodes(element) run
detectionRun(detected, maps, opts, element) ==
    Let(processTextNodes(detected, maps, opts, element), LAMBDA r :
        finish(r, maps, opts, [textNodes |-> r.textNodes, i |-> 0, y |-> 0]))

\* this.detectedKeys after one whole processTextNodes(element) run
detectionPass(detected, maps, opts, element) ==
    detectionRun(detected, maps, opts, element).detected

RECURSIVE SumOver(_, _)
SumOver(f, S) ==
    IF S = {} THEN 0
    ELSE LET e == CHOOSE x \in S : TRUE IN f[e] + SumOver(f, S \ {e})

\* the elements of the document a pass may be run over: the content root, the
\* anchor, the code block, the input and the inserted subtrees
PassRoots == {MainId, 4, 6, 8} \cup added

\* a processTextNodes(element) run that no other task interleaves with
wholePass(element) ==
    /\ element \in PassRoots
    /\ SumOver(regScans, ElementIds) < MaxPasses
    /\ \E r \in {detectionRun(detectedKeys, mappings, options, element)} :
           /\ detectedKeys' = r.detected
           /\ processedCount' = processedCount + r.processed
           /\ lastScan' = ScanRecord(element, r.textNodes, r.y)
    /\ regScans' = [regScans EXCEPT ![element] = @ + 1]
    /\ UNCHANGED << pageVars, navVars, mappings, options, observed, tasks,
                    pendingMutations, lastProcessingTime, errVars, cfgVars, burst >>

\* a call of LinkProcessor.reset
resetCall ==
    /\ reset
    /\ UNCHANGED << pageVars, navVars, mappings, options, observed, tasks,
                    pendingMutations, lastProcessingTime, lastScan, regScans,
                    errVars, cfgVars, burst >>

\* a LinkProcessor on a page of one or two batches, holding the mappings of
\* either repository, with any of the subtrees inserted
\* a LinkProcessor constructed in a document of n elements with the subtrees
\* rs inserted, after the setMappings of handleNavigation with the mappings
\* that the list of the local tier has for the repository r (a setMappings that
\* threw ended handleNavigation in its catch, which logged it); no scan has begun
SetUp(list, n, r, rs) ==
        /\ Installed
        /\ stored = list
        /\ destroyed = FALSE
        /\ errorLogs = IF mapsThrow(getMappingForRepository(r))
                       THEN {NavigationFailed} ELSE {}
        /\ consoleErrors = errorLogs
        /\ unhandled = {}
        /\ burst = {}
        /\ call = NoCall
        /\ url = r
        /\ navCount = 0
        /\ added = rs
        /\ fillerCount = NumFiller \div 2
        /\ elementCount = n
        /\ mappings = getMappingForRepository(r)
        /\ processedCount = 0
        /\ detectedKeys = <<>>
        /\ options = constructorOptions(n)
        /\ observed = {}
        /\ currentRepository = r
        /\ lastUrl = r
        /\ listening = FALSE
        /\ processingCache = {R1, R2}
        /\ tasks = <<>>
        /\ rescanTimers = 0
        /\ pendingMutations = <<>>
        /\ lastEnded = NoNavigation
        /\ lastProcessingTime = 0
        /\ lastScan = NoScan
        /\ regScans = [e \in ElementIds |-> 0]

InitPass ==
    \E n \in ElementCounts, r \in {R1, R2}, rs \in SUBSET Addable :
        SetUp(repositoryMappings, n, r, rs)

NextPass ==
    \/ \E element \in ElementIds : wholePass(element)
    \/ resetCall

SpecPass == InitPass /\ [][NextPass]_vars

\* ------------------------------------------------------------------ processor specification
\* a key prefix that the key-prefix rule rejects and that makes the pattern throw
BadPrefix == <<"(">>

\* two enabled mappings of one repository with the same key prefix
DuplicateMappings ==
    << Mapping(1, R1, IssuesUrl, WMS, TRUE), Mapping(5, R1, OtherUrl, WMS, TRUE) >>

\* a valid mapping followed by one whose pattern throws
BrokenMappings ==
    << Mapping(2, R1, ApiUrl, API, TRUE), Mapping(6, R1, IssuesUrl, BadPrefix, TRUE) >>

\* lists the local tier may hold when the mappings are fetched
StoredLists == {<<>>, repositoryMappings, DuplicateMappings, BrokenMappings}

\* the elements of the document as it is
Attached == {e \in ElementIds : (e \in Addable => e \in added) /\ (e = 16 => 14 \in added)}

\* a caller awaits this.linkProcessor.processElement(element), as
\* handleMutations does for one added node: the call up to its first suspension
ProcessElementCall(element) ==
    /\ element \in Attached
    /\ Len(tasks) < MaxTasks
    /\ processedCount < MaxProcessed
    /\ processElement(0, [NoTask EXCEPT !.kind = "call"], mappings, element, "next")
    /\ call' = [fn |-> "processElement", a |-> element, b |-> mappings,
                out |-> processElementPath(mappings, element)]
    /\ UNCHANGED << pageVars, navVars, mappings, pendingMutations, errorLogs, unhandled,
                    stored, destroyed, burst, extVars >>

InitProcessor ==
    \E list \in StoredLists, n \in ElementCounts, rs \in SUBSET Addable :
        SetUp(list, n, R1, rs)

\* the LinkProcessor driven through processElement, with the timers and
\* callbacks of its scans
NextProcessor ==
    \/ \E element \in ElementIds : ProcessElementCall(element)
    \/ \E idx \in 1..Len(tasks) : BatchWake(idx)
    \/ \E idx \in 1..Len(tasks) : IdleCallback(idx)
    \/ \E target \in ElementIds, isIntersecting \in BOOLEAN :
           IntersectionCallback(target, isIntersecting)

SpecProcessor == InitProcessor /\ [][NextProcessor]_vars

\* ------------------------------------------------------------------ mutations specification
\* records a mutation observer callback may deliver: insertions of elements,
\* of text nodes and of both, a removal, and a change of a class attribute
Records ==
    {MutationRecord("childList", << 10 >>), MutationRecord("childList", << 15, 16 >>),
     MutationRecord("childList", << 14, 11, 10 >>), MutationRecord("childList", << 12 >>),
     MutationRecord("childList", <<>>), MutationRecord("attributes", <<>>)}

MutationLists == {<< r >> : r \in Records} \cup {<< r, s >> : r, s \in Records}

\* the debounced handler calls handleMutations(mutations) while no earlier run
\* is under way; call keeps the records and the nodes handed to processElement
HandleMutationsCall(mutations) ==
    /\ \A i \in 1..Len(tasks) : tasks[i].kind # "mutations"
    /\ Len(tasks) < MaxTasks
    /\ processedCount < MaxProcessed
    /\ handleMutations(mutations)
    /\ \E queue \in {addedElements(relevantMutations(mutations))} :
           call' = [fn |-> "handleMutations", a |-> mutations,
                    b |-> IF queue = <<>> THEN <<>> ELSE << Head(queue) >>,
                    out |-> <<>>]
    /\ UNCHANGED << pageVars, navVars, mappings, pendingMutations, errorLogs, unhandled,
                    stored, destroyed, burst, extVars >>

\* the run goes on with its next node
NextNodeCall(idx) ==
    /\ tasks[idx].kind = "mutations"
    /\ nextAddedNode(idx)
    /\ call' = [call EXCEPT !.b = Append(@, Head(tasks[idx].queue))]
    /\ UNCHANGED << pageVars, navVars, mappings, pendingMutations, errorLogs, unhandled,
                    stored, destroyed, burst, extVars >>

\* a repository page of either size with both subtrees inserted
InitMutations ==
    \E n \in {SmallDocument, LargeDocument} : SetUp(repositoryMappings, n, R1, Addable)

NextMutations ==
    \/ \E mutations \in MutationLists : HandleMutationsCall(mutations)
    \/ \E idx \in 1..Len(tasks) : NextNodeCall(idx)
    \/ \E idx \in 1..Len(tasks) : IdleCallback(idx)
    \/ \E target \in ElementIds, isIntersecting \in BOOLEAN :
           IntersectionCallback(target, isIntersecting)

SpecMutations == InitMutations /\ [][NextMutations]_vars

\* ------------------------------------------------------------------ snapshot specification
\* LinkProcessor.setMappings(list), with lists whose patterns compile
setMappings(list) ==
    /\ mappings' = list
    /\ UNCHANGED << pageVars, navVars, detectedKeys, processedCount, options, observed,
                    tasks, pendingMutations, lastProcessingTime, lastScan, regScans,
                    errVars, cfgVars, burst >>

\* the mapping sets of the two repositories, and none
MappingSets == {<<>>, getMappingForRepository(R1), getMappingForRepository(R2)}

\* processTextNodes(element) is called once, as the intersection callback and
\* the idle callback call it; call keeps the element and the mapping set that
\* is active at this moment
ProcessTextNodesCall(element) ==
    /\ call.fn = "none"
    /\ element \in Attached
    /\ detachedScan(0, element)
    /\ call' = [fn |-> "processTextNodes", a |-> element, b |-> mappings, out |-> <<>>]
    /\ UNCHANGED << pageVars, navVars, mappings, options, observed, regScans,
                    pendingMutations, lastProcessingTime, errorLogs, stored, destroyed,
                    burst, extVars >>

\* a page of either size with any of the subtrees inserted and the mappings
\* of its repository set
InitSnapshot ==
    \E n \in {SmallDocument, LargeDocument}, rs \in SUBSET Addable :
        SetUp(repositoryMappings, n, R1, rs)

NextSnapshot ==
    \/ \E list \in MappingSets : setMappings(list)
    \/ \E element \in ElementIds : ProcessTextNodesCall(element)
    \/ \E idx \in 1..Len(tasks) : BatchWake(idx)

SpecSnapshot == InitSnapshot /\ [][NextSnapshot]_vars

\* ------------------------------------------------------------------ stale scan specification
\* the content of the page comes into the viewport before the page navigates:
\* the intersection callback starts a scan
EnterViewport(target) ==
    /\ navCount = 0
    /\ IntersectionCallback(target, TRUE)

\* a large repository page is loaded
InitStale ==
    /\ Loaded(repositoryMappings)
    /\ InitWith(<<"acme", "widgets">>, LargeDocument, NumFiller)

\* the scan of the loaded page, one navigation handled by popstate, and the
\* rescan it schedules; no node is inserted and nothing else enters the
\* viewport, so that after the navigation only the scan begun before it and
\* the rescan can detect
NextStale ==
    \/ \E idx \in 1..Len(tasks), ok \in BOOLEAN : InitPrefs(idx, ok)
    \/ \E idx \in 1..Len(tasks), ok \in BOOLEAN : InitMappings(idx, ok)
    \/ \E idx \in 1..Len(tasks) : ContentDone(idx)
    \/ \E target \in ElementIds : EnterViewport(target)
    \/ \E idx \in 1..Len(tasks) : BatchWake(idx)
    \/ \E u \in Urls : NavigatePop(u)
    \/ \E idx \in 1..Len(tasks), ok \in BOOLEAN : NavCacheGet(idx, ok)
    \/ \E idx \in 1..Len(tasks), ok \in BOOLEAN : NavCacheSet(idx, ok)
    \/ \E idx \in 1..Len(tasks), ok \in BOOLEAN : NavFetch(idx, ok)
    \/ RescanTimer

SpecStale == InitStale /\ [][NextStale]_vars

\* ------------------------------------------------------------------ teardown specification
\* ContentScript.destroy, run by the beforeunload listener once init has
\* installed the observers: this.observer.disconnect(). The timer of the
\* debounced handler, the listeners of setupNavigationListener and the
\* intersection observer of the LinkProcessor are left as they are.
destroy ==
    /\ listening
    /\ ~destroyed
    /\ destroyed' = TRUE
    /\ UNCHANGED << pageVars, navVars, scanVars, mappings, tasks, pendingMutations,
                    errVars, stored, call, burst, extVars >>

\* a repository page of either size is loaded
InitTeardown ==
    /\ Loaded(repositoryMappings)
    /\ \E n \in ElementCounts : InitWith(R1, n, NumFiller \div 2)

\* the page without navigations, with the unload of the page
NextTeardown ==
    \/ \E idx \in 1..Len(tasks), ok \in BOOLEAN : InitPrefs(idx, ok)
    \/ \E idx \in 1..Len(tasks), ok \in BOOLEAN : InitMappings(idx, ok)
    \/ \E idx \in 1..Len(tasks) : ContentDone(idx)
    \/ \E idx \in 1..Len(tasks) : BatchWake(idx)
    \/ \E idx \in 1..Len(tasks) : IdleCallback(idx)
    \/ \E target \in ElementIds, isIntersecting \in BOOLEAN :
           IntersectionCallback(target, isIntersecting)
    \/ \E rs \in SUBSET Addable : AddNodes(rs)
    \/ MutationTimer
    \/ \E idx \in 1..Len(tasks) : MutationsNext(idx)
    \/ destroy

SpecTeardown == InitTeardown /\ [][NextTeardown]_vars

\* ------------------------------------------------------------------ lib/issue-tracker
\* String.prototype.toLowerCase for one character
toLowerCase(c) ==
    CASE c = "A" -> "a" [] c = "I" -> "i" [] c = "M" -> "m"
      [] c = "P" -> "p" [] c = "S" -> "s" [] c = "W" -> "w"
      [] OTHER -> c

RECURSIVE trim(_)
\* String.prototype.trim
trim(s) ==
    IF s = <<>> THEN s
    ELSE IF Head(s) = " " THEN trim(Tail(s))
    ELSE IF s[Len(s)] = " " THEN trim(SubSeq(s, 1, Len(s) - 1))
    ELSE s

RECURSIVE indexOf(_, _, _)
\* the first position at or after from where s has the character c, 0 if none
indexOf(s, c, from) ==
    IF from > Len(s) THEN 0
    ELSE IF s[from] = c THEN from
    ELSE indexOf(s, c, from + 1)

RECURSIVE skipSlashes(_, _)
\* the URL parser ignores any number of slashes after the scheme of a special URL
skipSlashes(s, from) ==
    IF from <= Len(s) /\ s[from] = "/" THEN skipSlashes(s, from + 1) ELSE from

\* new URL(input) for inputs made of letters, digits, '.', '-', '_', '(', ':',
\* '/' and spaces, without port, credentials, query, fragment or dot segments:
\* the scheme and the host in lower case and the path, '/' when the input has
\* none; ok is FALSE where the constructor throws
URL(input) ==
    LET s == trim(input)
        colon == indexOf(s, ":", 1)
        scheme == [i \in 1..(colon - 1) |-> toLowerCase(s[i])]
        start == skipSlashes(s, colon + 1)
        slash == indexOf(s, "/", start)
        hostEnd == IF slash = 0 THEN Len(s) ELSE slash - 1
        host == [i \in 1..(hostEnd - start + 1) |-> toLowerCase(s[start + i - 1])]
        failure == [ok |-> FALSE, protocol |-> <<>>, hostname |-> <<>>, pathname |-> <<>>]
    IN IF colon < 2 THEN failure
       ELSE IF s[1] \notin Letters
               \/ \E i \in 1..(colon - 1) : s[i] \notin Letters \cup Digits \cup {"-", "."}
       THEN failure
       ELSE IF scheme \notin {<<"h", "t", "t", "p">>, <<"h", "t", "t", "p", "s">>}
       THEN [ok |-> TRUE, protocol |-> scheme \o <<":">>, hostname |-> <<>>,
             pathname |-> SubSeq(s, colon + 1, Len(s))]
       ELSE IF host = <<>> \/ \E i \in 1..Len(host) : host[i] \in {" ", ":"}
       THEN failure
       ELSE [ok |-> TRUE, protocol |-> scheme \o <<":">>, hostname |-> host,
             pathname |-> IF slash = 0 THEN <<"/">> ELSE SubSeq(s, slash, Len(s))]

\* URL.prototype.toString of a parsed http or https URL
toString(parsedUrl) ==
    parsedUrl.protocol \o <<"/", "/">> \o parsedUrl.hostname \o parsedUrl.pathname

HttpsProtocol == <<"h", "t", "t", "p", "s", ":">>

\* sanitizeUrl: threw says that it throws 'Invalid URL format'
sanitizeUrl(trackerUrl) ==
    LET parsedUrl == URL(trackerUrl)
    IN IF ~parsedUrl.ok \/ parsedUrl.protocol # HttpsProtocol
       THEN [threw |-> TRUE, value |-> <<>>]
       ELSE [threw |-> FALSE, value |-> toString(parsedUrl)]

\* GenericTracker.validateUrl
validateUrl(trackerUrl) ==
    LET parsedUrl == URL(trackerUrl)
    IN parsedUrl.ok /\ parsedUrl.protocol = HttpsProtocol /\ Len(parsedUrl.hostname) > 0

RECURSIVE encodeURIComponent(_)
\* encodeURIComponent: letters, digits and - _ . ( ) stay, the other characters
\* of the texts here are escaped
encodeURIComponent(s) ==
    IF s = <<>> THEN <<>>
    ELSE (CASE Head(s) = " " -> <<"%", "2", "0">>
            [] Head(s) = "/" -> <<"%", "2", "F">>
            [] Head(s) = ":" -> <<"%", "3", "A">>
            [] OTHER -> <<Head(s)>>) \o encodeURIComponent(Tail(s))

\* GenericTracker.generateUrl
generateUrl(key, baseUrl) ==
    LET sanitized == sanitizeUrl(baseUrl)
    IN IF sanitized.threw THEN sanitized
       ELSE [threw |-> FALSE,
             value |-> sanitized.value \o <<"/">> \o encodeURIComponent(key)]

\* isValidKeyPrefix: /^[A-Za-z][A-Za-z0-9_-]*$/
isValidKeyPrefix(prefix) ==
    /\ Len(prefix) >= 1
    /\ prefix[1] \in Letters
    /\ \A i \in 2..Len(prefix) : prefix[i] \in Letters \cup Digits \cup {"_", "-"}

\* generatePattern(keyPrefix).test(text), "throws" if the pattern cannot be built
test(keyPrefix, text) ==
    IF patternThrows(keyPrefix) THEN "throws"
    ELSE IF generatePattern_exec(keyPrefix, text, 0).index >= 0 THEN "match"
    ELSE "no match"

\* ------------------------------------------------------------------ tracker specification
\* The operations of GenericTracker, called on their own with arguments drawn
\* from small sets.

\* longest key prefix the pattern is tried with
MaxPrefixLen == 3

PrefixChars == {"W", "x", "1", "_", "-"}

RECURSIVE Strings(_, _)
\* the character sequences over chars of length at most n
Strings(chars, n) ==
    IF n = 0 THEN {<<>>}
    ELSE Let(Strings(chars, n - 1), LAMBDA shorter :
             shorter \cup {<<c>> \o s : c \in chars, s \in {t \in shorter : Len(t) = n - 1}})

KeyPrefixes == {p \in Strings(PrefixChars, MaxPrefixLen) : isValidKeyPrefix(p)} \cup {BadPrefix}

\* the texts a pattern is tried on: the key itself and three near misses
Texts(p) ==
    [key |-> p \o <<"-", "1", "2", "3">>,
     longer |-> p \o <<"x", "-", "1", "2", "3">>,
     reversed |-> <<"1", "2", "3", "-">> \o p,
     bare |-> p \o <<"-">>]

Http == <<"h", "t", "t", "p", ":", "/", "/">>

BaseUrls ==
    {IssuesUrl,
     IssuesUrl \o <<"/">>,
     IssuesUrl \o <<"/", "b", "r", "o", "w", "s", "e">>,
     Https \o <<"I", "s", "s", "u", "e", "s">> \o AcmeCom,
     Http \o <<"i", "s", "s", "u", "e", "s">> \o AcmeCom,
     <<"i", "s", "s", "u", "e", "s">> \o AcmeCom}

Wms42 == WMS \o <<"-", "4", "2">>

Keys == {Wms42, <<"W", "/", "1">>, <<"W", " ", "1">>}

contentVars == << mappings, processedCount, detectedKeys, options, observed, tasks,
                  pendingMutations, lastProcessingTime, lastScan, regScans, burst >>

\* generatePattern(keyPrefix).test(text)
TestCall(keyPrefix, kind) ==
    /\ call' = [fn |-> "generatePattern", a |-> keyPrefix, b |-> Texts(keyPrefix)[kind],
                out |-> test(keyPrefix, Texts(keyPrefix)[kind])]
    /\ UNCHANGED << pageVars, navVars, contentVars, errVars, stored, destroyed, extVars >>

\* generateUrl(key, baseUrl)
GenerateUrlCall(key, baseUrl) ==
    /\ call' = [fn |-> "generateUrl", a |-> key, b |-> baseUrl, out |-> generateUrl(key, baseUrl)]
    /\ UNCHANGED << pageVars, navVars, contentVars, errVars, stored, destroyed, extVars >>

InitTracker == Loaded(repositoryMappings) /\ InitWith(<<"settings">>, SmallDocument, 0)

NextTracker ==
    \/ \E keyPrefix \in KeyPrefixes, kind \in DOMAIN Texts(<<>>) : TestCall(keyPrefix, kind)
    \/ \E key \in Keys, baseUrl \in BaseUrls : GenerateUrlCall(key, baseUrl)

SpecTracker == InitTracker /\ [][NextTracker]_vars

\* ------------------------------------------------------------------ configuration specification
\* The options page (mapping dialog, toggle, delete, import) and the background
\* handler that passes its messages to the StorageManager, next to one page
\* load of the content script.

\* setRepositoryMappings: mappings.slice(0, 1000)
StorageCap == 1000

\* storage operations that may be between their read and their write at once
MaxWriters == 1

\* the list setRepositoryMappings writes for the list it is called with
setRepositoryMappings_unlimited(list) == list

\* the list setRepositoryMappings writes for the list it is called with
setRepositoryMappings(list) ==
    SubSeq(list, 1, IF Len(list) < StorageCap THEN Len(list) ELSE StorageCap)

\* addRepositoryMapping after its read: the list it calls setRepositoryMappings with
addRepositoryMapping(list, mapping) ==
    LET existing == {i \in 1..Len(list) : list[i].id = mapping.id}
    IN IF existing # {}
       THEN [list EXCEPT ![CHOOSE i \in existing : \A j \in existing : i <= j] = mapping]
       ELSE Append(list, mapping)

\* removeRepositoryMapping after its read: the list it calls setRepositoryMappings with
removeRepositoryMapping(list, id) == SelectSeq(list, LAMBDA m : m.id # id)

\* isValidRepositoryName on the path segments of the text: owner/name
isValidRepositoryName(repository) == Len(repository) = 2

\* MappingDialog.validateForm
validateForm(form) ==
    /\ isValidRepositoryName(form.repository)
    /\ trim(form.trackerUrl) # <<>>
    /\ URL(trim(form.trackerUrl)).ok
    /\ URL(trim(form.trackerUrl)).protocol = HttpsProtocol
    /\ trim(form.keyPrefix) # <<>>
    /\ isValidKeyPrefix(trim(form.keyPrefix))

\* ids generateId returns
NewIds == {7}

\* ids of the mappings whose rows of the options page the user acts on
RowIds == {1} \cup NewIds

Forms ==
    [repository : {R1, <<"acme">>},
     trackerUrl : {<<" ">> \o IssuesUrl \o <<" ">>,
                   Http \o <<"i", "s", "s", "u", "e", "s">> \o AcmeCom,
                   <<"i", "s", "s", "u", "e", "s">> \o AcmeCom},
     keyPrefix : {<<" ">> \o WMS \o <<" ">>, BadPrefix, <<"4", "2">>}]

\* a tracker URL that is not https, with a prefix the pattern accepts
InsecureMappings ==
    << Mapping(9, R1, Http \o <<"i", "s", "s", "u", "e", "s">> \o AcmeCom, WMS, TRUE) >>

\* n disabled mappings of another repository
Bulk(n) == [i \in 1..n |-> Mapping(100 + i, R2, OtherUrl, WMS, FALSE)]

\* the files the user imports: not JSON, JSON without a repositoryMappings
\* member, and JSON with one of the lists
ImportFiles(lists) ==
    {[json |-> FALSE, has |-> FALSE, repositoryMappings |-> <<>>],
     [json |-> TRUE, has |-> FALSE, repositoryMappings |-> <<>>]}
    \cup {[json |-> TRUE, has |-> TRUE, repositoryMappings |-> list] : list \in lists}

\* imported by hand-edited files
EditedLists == {<<>>, BrokenMappings, InsecureMappings}

\* imported lists around the cap
LongLists == {<<>>, Bulk(StorageCap - 1), Bulk(StorageCap), Bulk(StorageCap + 1)}

Rows == {i \in 1..Len(stored) : stored[i].id \in RowIds}

Writers == {idx \in 1..Len(tasks) : tasks[idx].kind \in {"add", "remove"}}

\* the background handler calls a storage operation, which reads the list
StorageCall(kind, argument) ==
    /\ Len(tasks) < MaxTasks
    /\ Cardinality(Writers) < MaxWriters
    /\ tasks' = Append(tasks, [NoTask EXCEPT !.kind = kind, !.pc = "set",
                                             !.read = getRepositoryMappings, !.data = argument])

configVars == << pageVars, navVars, mappings, processedCount, detectedKeys, options,
                 observed, pendingMutations, lastProcessingTime, lastScan, regScans,
                 burst, errVars, destroyed, extVars >>

\* MappingDialog.handleSave for a new mapping (row 0) or the mapping of a row,
\* then Options.handleSaveMapping and the ADD_REPOSITORY_MAPPING handler
handleSave(form, row) ==
    /\ IF validateForm(form)
       THEN \E id \in IF row = 0 THEN NewIds \ {stored[i].id : i \in 1..Len(stored)}
                                ELSE {stored[row].id} :
               /\ StorageCall("add", Mapping(id, form.repository, trim(form.trackerUrl),
                                             trim(form.keyPrefix),
                                             IF row = 0 THEN TRUE ELSE stored[row].enabled))
               /\ call' = [fn |-> "handleSave", a |-> <<>>, b |-> id, out |-> "sent"]
       ELSE /\ call' = [fn |-> "handleSave", a |-> <<>>, b |-> row, out |-> "rejected"]
            /\ UNCHANGED tasks
    /\ UNCHANGED << configVars, stored >>

\* Options.handleToggleMapping and the ADD_REPOSITORY_MAPPING handler
handleToggleMapping(row) ==
    /\ StorageCall("add", [stored[row] EXCEPT !.enabled = ~stored[row].enabled])
    /\ call' = [fn |-> "handleToggleMapping", a |-> <<>>, b |-> stored[row].id, out |-> "sent"]
    /\ UNCHANGED << configVars, stored >>

\* Options.handleDeleteMapping and the REMOVE_REPOSITORY_MAPPING handler
handleDeleteMapping(row) ==
    /\ StorageCall("remove", [id |-> stored[row].id])
    /\ call' = [fn |-> "handleDeleteMapping", a |-> <<>>, b |-> stored[row].id, out |-> "sent"]
    /\ UNCHANGED << configVars, stored >>

\* addRepositoryMapping or removeRepositoryMapping after its read: the call of
\* setRepositoryMappings, and the handler's sendResponse({ success: true })
StorageSet(idx) ==
    /\ tasks[idx].pc = "set"
    /\ \E list \in {IF tasks[idx].kind = "add"
                     THEN addRepositoryMapping(tasks[idx].read, tasks[idx].data)
                     ELSE removeRepositoryMapping(tasks[idx].read, tasks[idx].data.id)} :
          /\ stored' = setRepositoryMappings(list)
          /\ call' = [fn |-> "setRepositoryMappings", a |-> list,
                      b |-> IF tasks[idx].kind = "add" THEN "addRepositoryMapping"
                            ELSE "removeRepositoryMapping",
                      out |-> "success"]
    /\ tasks' = RemoveAt(tasks, idx)
    /\ UNCHANGED configVars

\* the IMPORT_SETTINGS handler: StorageManager.importSettings(message.data)
importSettings(jsonData) ==
    /\ IF jsonData.json /\ jsonData.has
       THEN /\ stored' = setRepositoryMappings(jsonData.repositoryMappings)
            /\ call' = [fn |-> "setRepositoryMappings", a |-> jsonData.repositoryMappings,
                        b |-> "importSettings", out |-> "success"]
       ELSE /\ call' = [fn |-> "importSettings", a |-> <<>>, b |-> "importSettings",
                        out |-> IF jsonData.json THEN "success"
                                ELSE "Invalid JSON data for import"]
            /\ UNCHANGED stored
    /\ UNCHANGED << configVars, tasks >>

InitConfig == Loaded(repositoryMappings) /\ InitWith(R1, SmallDocument, 0)

NextConfig ==
    \/ \E form \in Forms, row \in {0} \cup Rows : handleSave(form, row)
    \/ \E row \in Rows : handleToggleMapping(row)
    \/ \E row \in Rows : handleDeleteMapping(row)
    \/ \E idx \in 1..Len(tasks) : StorageSet(idx)
    \/ \E jsonData \in ImportFiles(EditedLists) : importSettings(jsonData)
    \/ \E idx \in 1..Len(tasks), ok \in BOOLEAN : InitPrefs(idx, ok)
    \/ \E idx \in 1..Len(tasks), ok \in BOOLEAN : InitMappings(idx, ok)
    \/ \E idx \in 1..Len(tasks) : ContentDone(idx)

SpecConfig == InitConfig /\ [][NextConfig]_vars

\* ------------------------------------------------------------------ storage specification
\* The same operations on the options page itself, where no content script
\* runs, with imported lists around the cap.
InitStorage == Loaded(repositoryMappings) /\ InitWith(<<"settings">>, SmallDocument, 0)

NextStorage ==
    \/ \E form \in Forms, row \in {0} \cup Rows : handleSave(form, row)
    \/ \E row \in Rows : handleToggleMapping(row)
    \/ \E row \in Rows : handleDeleteMapping(row)
    \/ \E idx \in 1..Len(tasks) : StorageSet(idx)
    \/ \E jsonData \in ImportFiles(LongLists) : importSettings(jsonData)

SpecStorage == InitStorage /\ [][NextStorage]_vars

\* ------------------------------------------------------------------ pages specification
\* The popup, the options page and the background service next to one tab
\* with a repository page.

\* the message types BackgroundService.handleMessage has a case for
MessageTypes ==
    {"GET_REPOSITORY_MAPPINGS", "ADD_REPOSITORY_MAPPING", "REMOVE_REPOSITORY_MAPPING",
     "GET_USER_PREFERENCES", "SET_USER_PREFERENCES", "EXPORT_SETTINGS",
     "IMPORT_SETTINGS", "GET_PERFORMANCE_METRICS", "GET_ERROR_LOGS",
     "CLEAR_ERROR_LOGS", "SHOW_NOTIFICATION", "UPDATE_BADGE"}

\* the sync tier after handleMessage got a message of this type with these
\* preferences as its content, when a write of the tier succeeds (written)
handleMessage_preferences(type, content, written) ==
    IF type = "SET_USER_PREFERENCES" /\ written THEN content ELSE userPreferences

\* the success member of the reply of handleMessage
handleMessage_success(type, written) ==
    IF type \in MessageTypes THEN written ELSE FALSE

\* the storage-change listeners of ThemeProvider and of lib/i18n in an open page
onChanged(page, oldPreferences, newPreferences) ==
    IF ~page.open THEN page
    ELSE [page EXCEPT
             !.theme = IF newPreferences.theme # oldPreferences.theme
                       THEN newPreferences.theme ELSE @,
             !.language = IF newPreferences.language # "unset"
                             /\ newPreferences.language # oldPreferences.language
                          THEN newPreferences.language ELSE @]

\* an extension page after its load: preferences, theme and language from the
\* sync tier (the browser language is English), keys as given
openPage(keys) ==
    [open |-> TRUE, interactive |-> TRUE, preferences |-> userPreferences,
     detectedKeys |-> keys, theme |-> userPreferences.theme,
     language |-> IF userPreferences.language = "unset" THEN "en"
                  ELSE userPreferences.language]

\* updateBadge: count.toString(), or '' for 0
badgeText(count) == IF count > 0 THEN << count >> ELSE <<>>

\* BackgroundService.updateBadge(count, tabId): tabId is undefined for a
\* message from the popup
updateBadge(count, tabId) ==
    IF tabId THEN [badge EXCEPT !.tab = badgeText(count)]
    ELSE [badge EXCEPT !.global = badgeText(count)]

tabVars == << added, mappings, processedCount, detectedKeys, options, observed,
             currentRepository, lastUrl, listening, tasks, rescanTimers,
             pendingMutations, lastEnded, lastProcessingTime, lastScan, regScans,
             burst, destroyed >>

\* chrome.tabs.reload(): the page is loaded again and a new ContentScript is
\* constructed
reload ==
    /\ added' = {}
    /\ mappings' = <<>>
    /\ processedCount' = 0
    /\ detectedKeys' = <<>>
    /\ options' = constructorOptions(elementCount)
    /\ observed' = {}
    /\ currentRepository' = extractRepositoryFromUrl(url)
    /\ lastUrl' = url
    /\ listening' = FALSE
    /\ tasks' = IF extractRepositoryFromUrl(url) # Null
                THEN << [NoTask EXCEPT !.kind = "init", !.pc = "prefs"] >>
                ELSE <<>>
    /\ rescanTimers' = 0
    /\ pendingMutations' = <<>>
    /\ lastEnded' = NoNavigation
    /\ lastProcessingTime' = 0
    /\ lastScan' = NoScan
    /\ regScans' = [e \in ElementIds |-> 0]
    /\ burst' = {}
    /\ destroyed' = FALSE

Themes == {"light", "dark", "system"}

Languages == {"en", "ja"}

\* what becomes of a chrome.runtime.sendMessage with preferences: the promise
\* is rejected, or the handler replies after a failed or a successful write
Outcomes == {"throws", "failed", "stored"}

pageKept == << url, navCount, fillerCount, elementCount, processingCache, errVars, stored,
               performanceMetrics, errorLogWindow, now >>

\* the options page is opened
OpenOptions ==
    /\ ~optionsPage.open
    /\ optionsPage' = openPage(<<>>)
    /\ call' = [fn |-> "Options", a |-> <<>>, b |-> <<>>, out |-> <<>>]
    /\ UNCHANGED << pageKept, tabVars, userPreferences, popup, badge >>

\* the popup is opened: loadData, with the keys of the GET_DETECTED_KEYS reply
OpenPopup ==
    /\ ~popup.open
    /\ popup' = openPage(IF handleGetDetectedKeys.success
                         THEN handleGetDetectedKeys.keys ELSE <<>>)
    /\ call' = [fn |-> "loadData", a |-> <<>>, b |-> <<>>, out |-> <<>>]
    /\ UNCHANGED << pageKept, tabVars, userPreferences, optionsPage, badge >>

\* the popup is closed
ClosePopup ==
    /\ popup.open
    /\ popup' = ClosedPage
    /\ call' = [fn |-> "close", a |-> <<>>, b |-> <<>>, out |-> <<>>]
    /\ UNCHANGED << pageKept, tabVars, userPreferences, optionsPage, badge >>

\* Options.handleThemeChange (member theme) or handleLanguageChange (member
\* language): the message, then the React state, and for the language
\* changeLanguage; call keeps the member, the value and the outcome
handleChange(member, value, outcome) ==
    /\ optionsPage.open
    /\ \E type \in {"UPDATE_USER_PREFERENCES"},
          content \in {[optionsPage.preferences EXCEPT ![member] = value]} :
          /\ userPreferences' = IF outcome = "throws" THEN userPreferences
                                ELSE handleMessage_preferences(type, content, outcome = "stored")
          /\ optionsPage' =
                 IF outcome = "throws" THEN optionsPage
                 ELSE [onChanged(optionsPage, userPreferences, userPreferences')
                          EXCEPT !.preferences = content,
                                 !.language = IF member = "language" THEN value ELSE @]
          /\ popup' = onChanged(popup, userPreferences, userPreferences')
          /\ call' = [fn |-> "handleChange", a |-> member, b |-> value, out |-> outcome]
    /\ UNCHANGED << pageKept, tabVars, badge >>

\* Popup.toggleEnabled(enabled), answered in the confirmation dialog with
\* confirmed. PREFERENCES_CHANGED, which handleStorageChanged sends to the
\* tabs, has no listener in the content script. After window.close() the
\* popup takes no input until the host has closed it (ClosePopup).
toggleEnabled(enabled, confirmed, outcome) ==
    /\ popup.open
    /\ popup.interactive
    /\ enabled # popup.preferences.enabled
    /\ \E type \in {"SET_USER_PREFERENCES"},
          content \in {[popup.preferences EXCEPT !.enabled = enabled]} :
          /\ call' = [fn |-> "toggleEnabled", a |-> enabled, b |-> confirmed, out |-> outcome]
          /\ IF (enabled /\ ~confirmed) \/ outcome = "throws"
             THEN UNCHANGED << userPreferences, popup, optionsPage, badge, tabVars >>
             ELSE /\ userPreferences' = handleMessage_preferences(type, content, outcome = "stored")
                  /\ optionsPage' = onChanged(optionsPage, userPreferences, userPreferences')
                  /\ IF enabled
                     THEN /\ popup' = [popup EXCEPT !.preferences = content,
                                                    !.interactive = FALSE]
                          /\ reload
                          /\ UNCHANGED badge
                     ELSE /\ popup' = [onChanged(popup, userPreferences, userPreferences')
                                          EXCEPT !.preferences = content,
                                                 !.detectedKeys = <<>>]
                          /\ badge' = updateBadge(0, FALSE)
                          /\ UNCHANGED tabVars
    /\ UNCHANGED pageKept

InitPages == Loaded(repositoryMappings) /\ InitWith(R1, SmallDocument, 0)

NextPages ==
    \/ \E idx \in 1..Len(tasks), ok \in BOOLEAN : InitPrefs(idx, ok)
    \/ \E idx \in 1..Len(tasks), ok \in BOOLEAN : InitMappings(idx, ok)
    \/ \E idx \in 1..Len(tasks) : ContentDone(idx)
    \/ OpenOptions
    \/ OpenPopup
    \/ ClosePopup
    \/ \E theme \in Themes, outcome \in Outcomes : handleChange("theme", theme, outcome)
    \/ \E language \in Languages, outcome \in Outcomes :
           handleChange("language", language, outcome)
    \/ \E enabled \in BOOLEAN, confirmed \in BOOLEAN, outcome \in Outcomes :
           toggleEnabled(enabled, confirmed, outcome)

SpecPages == InitPages /\ [][NextPages]_vars

\* ------------------------------------------------------------------ detection loop specification
\* The while loop of detectKeysInTextNode and detectKeysInExistingLinks for
\* one mapping, one iteration per step.

\* longest text the loop is run on
MaxTextLen == 4

ExecTexts == Strings({"W", "-", "1", " "}, MaxTextLen)

ExecPrefixes == {<<"W">>, Bar}

\* pattern.lastIndex = 0 before the loop; call keeps the prefix and the text,
\* the matches so far and pattern.lastIndex
ExecStart(keyPrefix, text) ==
    /\ call.fn # "exec"
    /\ call' = [fn |-> "exec", a |-> << keyPrefix, text >>, b |-> <<>>, out |-> 0]
    /\ UNCHANGED << pageVars, navVars, contentVars, errVars, stored, destroyed, extVars >>

\* one evaluation of (match = pattern.exec(text)) !== null and, for a match,
\* one run of the loop body; a failed exec sets lastIndex to 0
ExecNext ==
    /\ call.fn = "exec"
    /\ \E match \in {generatePattern_exec(call.a[1], call.a[2], call.out)} :
           call' = IF match.index < 0
                   THEN [call EXCEPT !.fn = "ended", !.out = 0]
                   ELSE [call EXCEPT !.b = Append(@, match), !.out = lastIndexAfter(match)]
    /\ UNCHANGED << pageVars, navVars, contentVars, errVars, stored, destroyed, extVars >>

NextExec ==
    \/ \E keyPrefix \in ExecPrefixes, text \in ExecTexts : ExecStart(keyPrefix, text)
    \/ ExecNext

SpecExec == InitTracker /\ [][NextExec]_vars

\* ------------------------------------------------------------------ failed writes specification
\* The page without navigations, where the storage calls of the content
\* script may fail, the write of an error-log record included.

ProcessFailed == "Failed to process initial content"

\* processInitialContent when its await storage.addPerformanceMetric(...) is
\* rejected: the catch awaits logError, whose addErrorLog succeeds (first) or is
\* rejected before the console.error; a rejected logError leaves
\* processInitialContent through its catch, and for init through the catch of
\* init, which awaits logError again (second)
MetricFails(idx, first, second) ==
    /\ tasks[idx].pc = "metric"
    /\ tasks' = RemoveAt(tasks, idx)
    /\ call' = [fn |-> "processInitialContent", a |-> tasks[idx].kind, b |-> <<>>,
                out |-> IF first THEN "resolved" ELSE "rejected"]
    /\ IF first
       THEN /\ logError(ProcessFailed)
            /\ UNCHANGED unhandled
            /\ IF tasks[idx].kind = "init"
               THEN listening' = TRUE /\ lastUrl' = url
               ELSE UNCHANGED << listening, lastUrl >>
       ELSE /\ UNCHANGED << listening, lastUrl >>
            /\ IF tasks[idx].kind = "init" /\ second
               THEN logError(InitFailed) /\ UNCHANGED unhandled
               ELSE /\ unhandled' = unhandled \cup {IF tasks[idx].kind = "init" THEN "init"
                                                     ELSE "processInitialContent"}
                    /\ UNCHANGED << errorLogs, consoleErrors >>
    /\ UNCHANGED << pageVars, scanVars, mappings, pendingMutations, currentRepository,
                    processingCache, rescanTimers, lastEnded, stored, destroyed, extVars,
                    burst >>

\* init when its await of getUserPreferences or getMappingForRepository is
\* rejected and the addErrorLog of the logError in its catch is rejected too
InitFails(idx) ==
    /\ tasks[idx].kind = "init"
    /\ tasks[idx].pc \in {"prefs", "mappings"}
    /\ tasks' = RemoveAt(tasks, idx)
    /\ unhandled' = unhandled \cup {"init"}
    /\ UNCHANGED << pageVars, navVars, scanVars, mappings, pendingMutations, errorLogs,
                    consoleErrors, cfgVars, burst >>

NextWrites ==
    \/ \E idx \in 1..Len(tasks), ok \in BOOLEAN : InitPrefs(idx, ok)
    \/ \E idx \in 1..Len(tasks), ok \in BOOLEAN : InitMappings(idx, ok)
    \/ \E idx \in 1..Len(tasks) : ContentDone(idx)
    \/ \E idx \in 1..Len(tasks), first \in BOOLEAN, second \in BOOLEAN :
           MetricFails(idx, first, second)
    \/ \E idx \in 1..Len(tasks) : InitFails(idx)
    \/ \E idx \in 1..Len(tasks) : BatchWake(idx)
    \/ \E idx \in 1..Len(tasks) : IdleCallback(idx)
    \/ \E target \in ElementIds, isIntersecting \in BOOLEAN :
           IntersectionCallback(target, isIntersecting)
    \/ \E rs \in SUBSET Addable : AddNodes(rs)
    \/ MutationTimer
    \/ \E idx \in 1..Len(tasks) : MutationsNext(idx)

SpecWrites == InitTeardown /\ [][NextWrites]_vars

\* ------------------------------------------------------------------ observability specification
\* addPerformanceMetric and addErrorLog, called by the content scripts of
\* several tabs. In this specification call.a and call.b hold the records
\* passed to addPerformanceMetric and to addErrorLog so far, in call order.

\* addPerformanceMetric: slice(0, 100)
MetricsCap == 100

\* addErrorLog: slice(0, 50)
LogsCap == 50

\* calls of one operation that may be between their read and their write at once
MaxCallers == 2

\* records each store is given on top of those it holds at the start
MaxAdds == 2

\* latest Date.now()
MaxNow == 2

\* the place of records[i] after the sort: behind the newer records and behind
\* the records of the same timestamp that stood before it
placeOf(records, i) ==
    1 + Cardinality({j \in 1..Len(records) :
                        \/ records[j].timestamp > records[i].timestamp
                        \/ records[j].timestamp = records[i].timestamp /\ j < i})

\* records.sort((a, b) => b.timestamp - a.timestamp): stable, newest first
sortNewestFirst(records) ==
    Let([i \in 1..Len(records) |-> placeOf(records, i)],
        LAMBDA places : [p \in 1..Len(records) |->
                            records[CHOOSE i \in 1..Len(records) : places[i] = p]])

\* the list addPerformanceMetric (cap 100) or addErrorLog (cap 50) writes for
\* the list it has read and its record
recent(records, record, cap) ==
    Let(sortNewestFirst(Append(records, record)),
        LAMBDA sorted : SubSeq(sorted, 1, IF Len(sorted) < cap THEN Len(sorted) ELSE cap))

\* n records written one per millisecond before the start, newest first
Preloaded(n) == [i \in 1..n |-> [id |-> -i, timestamp |-> -i]]

\* how many of the records of a call history were added after the start
NewCount(history) ==
    IF history = <<>> \/ history[Len(history)].id < 0 THEN 0
    ELSE history[Len(history)].id

Callers(kind) == {idx \in 1..Len(tasks) : tasks[idx].kind = kind}

\* Date.now() advances
Tick ==
    /\ now < MaxNow
    /\ now' = now + 1
    /\ UNCHANGED << pageVars, navVars, contentVars, errVars, stored, destroyed, call,
                    userPreferences, performanceMetrics, errorLogWindow, popup,
                    optionsPage, badge >>

windowVars == << pageVars, navVars, mappings, processedCount, detectedKeys, options,
                 observed, pendingMutations, lastProcessingTime, lastScan, regScans,
                 burst, errVars, stored, destroyed, userPreferences, popup,
                 optionsPage, badge >>

\* storage.addPerformanceMetric(metric), with timestamp: Date.now(), up to the
\* end of its read
addPerformanceMetric ==
    /\ NewCount(call.a) < MaxAdds
    /\ Cardinality(Callers("metric")) < MaxCallers
    /\ \E metric \in {[id |-> NewCount(call.a) + 1, timestamp |-> now]} :
          /\ tasks' = Append(tasks, [NoTask EXCEPT !.kind = "metric", !.pc = "set",
                                                   !.read = performanceMetrics,
                                                   !.data = metric])
          /\ call' = [call EXCEPT !.fn = "addPerformanceMetric", !.a = Append(@, metric)]
    /\ UNCHANGED << windowVars, performanceMetrics, errorLogWindow, now >>

\* storage.addErrorLog(log), with timestamp: Date.now(), up to the end of its read
addErrorLog ==
    /\ NewCount(call.b) < MaxAdds
    /\ Cardinality(Callers("log")) < MaxCallers
    /\ \E log \in {[id |-> NewCount(call.b) + 1, timestamp |-> now]} :
          /\ tasks' = Append(tasks, [NoTask EXCEPT !.kind = "log", !.pc = "set",
                                                   !.read = errorLogWindow,
                                                   !.data = log])
          /\ call' = [call EXCEPT !.fn = "addErrorLog", !.b = Append(@, log)]
    /\ UNCHANGED << windowVars, performanceMetrics, errorLogWindow, now >>

\* addPerformanceMetric or addErrorLog after its read: push, sort, slice and
\* the write
WindowSet(idx) ==
    /\ tasks[idx].kind \in {"metric", "log"}
    /\ tasks[idx].pc = "set"
    /\ IF tasks[idx].kind = "metric"
       THEN /\ performanceMetrics' = recent(tasks[idx].read, tasks[idx].data, MetricsCap)
            /\ UNCHANGED errorLogWindow
       ELSE /\ errorLogWindow' = recent(tasks[idx].read, tasks[idx].data, LogsCap)
            /\ UNCHANGED performanceMetrics
    /\ tasks' = RemoveAt(tasks, idx)
    /\ UNCHANGED << windowVars, now, call >>

\* the stores are empty, one record short of their caps, or full
InitObservability ==
    /\ \E room \in {0, 1, MetricsCap} :
           LoadedWith(repositoryMappings,
                      Preloaded(MetricsCap - room),
                      Preloaded(IF room > LogsCap THEN 0 ELSE LogsCap - room))
    /\ InitWith(<<"settings">>, SmallDocument, 0)

NextObservability ==
    \/ Tick
    \/ addPerformanceMetric
    \/ addErrorLog
    \/ \E idx \in 1..Len(tasks) : WindowSet(idx)

SpecObservability == InitObservability /\ [][NextObservability]_vars

\* ------------------------------------------------------------------ properties
KeysOf(list) == {list[i].key : i \in 1..Len(list)}

NoDuplicateKey(list) == \A i, j \in 1..Len(list) : list[i].key = list[j].key => i = j

\* C1: whatever scans have interleaved at their batch boundaries, the list of
\* getUniqueDetectedKeys and the keys of the GET_DETECTED_KEYS reply hold every
\* detected key text exactly once, and so does this.detectedKeys itself
C1_UniqueKeys ==
    /\ NoDuplicateKey(detectedKeys)
    /\ NoDuplicateKey(getUniqueDetectedKeys(detectedKeys))
    /\ KeysOf(getUniqueDetectedKeys(detectedKeys)) = KeysOf(detectedKeys)
    /\ NoDuplicateKey(handleGetDetectedKeys.keys)
    /\ handleGetDetectedKeys.success
          => KeysOf(handleGetDetectedKeys.keys) = KeysOf(detectedKeys)

\* two scans are suspended between batches and the key that occurs twice in one
\* text has been detected
C1_Witness ==
    /\ Len(tasks) = 2
    /\ tasks[1].pc = "sleep" /\ tasks[2].pc = "sleep"
    /\ handleGetDetectedKeys.success
    /\ Key(WMS, <<"4", "2">>) \in KeysOf(handleGetDetectedKeys.keys)

\* C2: every step that starts a handleNavigation run, from popstate or from
\* checkUrlChange, with or without a change of repository, leaves the detection
\* set empty and the processed count 0
C2_NavigationClears ==
    [][(listening /\ \E u \in Urls : NavigatePop(u)) \/ CheckUrlChange
           => detectedKeys' = <<>> /\ processedCount' = 0]_vars

\* a navigation inside the same repository has been handled after a scan had
\* completed, and the detection set is empty
C2_Witness ==
    /\ lastEnded.old # Null /\ lastEnded.old = lastEnded.new
    /\ lastEnded.scheduled
    /\ lastScan.nodes > 0
    /\ detectedKeys = <<>>

\* C3 as stated: a handleNavigation run that found another repository leaves
\* the cache entry of the old repository cleared and the mappings of the new
\* repository in the LinkProcessor
C3_Stated ==
    lastEnded.old # lastEnded.new
        => /\ lastEnded.cleared
           /\ lastEnded.new # Null => lastEnded.replaced

\* C4 as stated, in its necessary part: a handleNavigation run that left
\* this.currentRepository non-null has set the 500 ms timer of the rescan
C4_Stated == lastEnded.repository # Null => lastEnded.scheduled

\* C5: from every detection set that passes and resets can leave, a whole
\* detection pass over an element followed by a second one, with the same
\* mappings and the subtree unchanged, gives what the first one gave
C5_Idempotent ==
    \A element \in PassRoots :
        \A once \in {detectionPass(detectedKeys, mappings, options, element)} :
            detectionPass(once, mappings, options, element) = once

\* two passes in two batches each have run over the content root, one after
\* the other, and left three keys
C5_Witness ==
    /\ regScans[MainId] = 2
    /\ lastScan.element = MainId /\ lastScan.yields = 1
    /\ processedCount = 2 * lastScan.nodes
    /\ Len(detectedKeys) = 3

\* the decision table of the size rule
Table(n) ==
    IF n < 1000
    THEN [performanceMode |-> "comprehensive", maxProcessingTime |-> 100,
          batchSize |-> 100, useIntersectionObserver |-> FALSE]
    ELSE IF n <= 4999
    THEN [performanceMode |-> "auto", maxProcessingTime |-> 500,
          batchSize |-> 50, useIntersectionObserver |-> FALSE]
    ELSE [performanceMode |-> "fast", maxProcessingTime |-> 200,
          batchSize |-> 25, useIntersectionObserver |-> TRUE]

\* C6: the options of a LinkProcessor constructed without options are the row
\* of the decision table for the element count of the document, at 999, 1000,
\* 4999 and 5000 too; later only the mode may differ, after a downgrade
C6_DecisionTable ==
    /\ constructorOptions(elementCount) = Table(elementCount)
    /\ [options EXCEPT !.performanceMode = Table(elementCount).performanceMode]
           = Table(elementCount)
    /\ lastProcessingTime = 0 => options = Table(elementCount)

\* a document of 4999 elements has been scanned with the options of the middle row
C6_Witness ==
    /\ elementCount = 4999
    /\ options = Table(4999)
    /\ lastScan.batchSize = 50

\* C7: a processor in fast mode stays in fast mode, and the options change only
\* from comprehensive or auto to fast, in a step whose measured processing time
\* is greater than maxProcessingTime
C7_OneWay ==
    [][/\ options.performanceMode = "fast" => options'.performanceMode = "fast"
       /\ options' # options
              => /\ options.performanceMode \in {"comprehensive", "auto"}
                 /\ options' = [options EXCEPT !.performanceMode = "fast"]
                 /\ lastProcessingTime' > options.maxProcessingTime]_vars

\* a document of the middle row has been downgraded to fast mode and an idle
\* callback of fast mode is queued
C7_Witness ==
    /\ elementCount = 1000
    /\ options.performanceMode = "fast"
    /\ lastProcessingTime > options.maxProcessingTime
    /\ \E idx \in 1..Len(tasks) : tasks[idx].pc = "idle"

\* C8: an element registered with the intersection observer has not been
\* scanned while it is registered, and has been scanned at most once since its
\* registration: by the callback that reported it intersecting and removed it
C8_ScannedOnce ==
    \A e \in ElementIds :
        /\ regScans[e] <= 1
        /\ e \in observed => regScans[e] = 0
        /\ ~options.useIntersectionObserver => regScans[e] = 0 /\ observed = {}

\* the content root was registered, reported intersecting, scanned and removed
C8_Witness ==
    /\ options.useIntersectionObserver
    /\ regScans[MainId] = 1
    /\ MainId \notin observed
    /\ lastScan.element = MainId

\* C9 as stated: a scan over 300 text nodes with batchSize 50 yields 6 times
C9_Stated ==
    lastScan.nodes = 300 /\ lastScan.batchSize = 50 => lastScan.yields = 6

\* C9: a scan over n text nodes with batch size b yields after every batch but
\* the last, (n - 1) \div b times for n > 0: 5 times for 300 nodes and 50
C9_Yields ==
    /\ lastScan.nodes > 0 => lastScan.yields = (lastScan.nodes - 1) \div lastScan.batchSize
    /\ lastScan.nodes = 0 => lastScan.yields = 0
    /\ lastScan.nodes = 300 /\ lastScan.batchSize = 50 => lastScan.yields = 5

\* a scan over 300 text nodes with batchSize 50 has completed after 5 yields
C9_Witness ==
    /\ lastScan.nodes = 300
    /\ lastScan.batchSize = 50
    /\ lastScan.yields = 5

\* the texts in the anchor, the code block and the input
ExcludedTexts == {data(5), data(7), data(9)}

\* C10: the text-node pass over the content root, over the anchor, the code
\* block or the input, or over an inserted subtree detects none of the texts in
\* the anchor, the code block and the input; whatever passes have run, the
\* texts of the code block, the input and the editor are not in the detection
\* set; the existing-link pass over the content root detects the text of the
\* anchor
C10_Exclusion ==
    /\ \A element \in PassRoots :
           KeysOf(processBatch(<<>>, mappings, getTextNodes(element)))
               \cap ExcludedTexts = {}
    /\ KeysOf(detectedKeys) \cap {data(7), data(9), data(15)} = {}
    /\ mappings # <<>>
           => data(5) \in KeysOf(detectKeysInExistingLinks(<<>>, mappings, MainId))

\* passes have run over the code block and then over the content root, with
\* the editor subtree in the document, and the text of the anchor is in the
\* detection set
C10_Witness ==
    /\ regScans[6] = 1
    /\ 14 \in added
    /\ lastScan.element = MainId
    /\ data(5) \in KeysOf(detectedKeys)
    /\ Key(WMS, <<"4", "2">>) \in KeysOf(detectedKeys)

\* C11: a processElement call made while no mappings are configured, or for an
\* element that is excluded itself or through an ancestor, changes neither the
\* detection set nor processedCount, the options or the registrations with the
\* intersection observer, and starts or queues no scan
C11_NoOp ==
    [][\A element \in ElementIds :
           (mappings = <<>> \/ shouldExcludeElement(element))
               /\ ProcessElementCall(element)
           => UNCHANGED << detectedKeys, processedCount, options, observed, tasks,
                           lastScan, regScans, consoleErrors, unhandled >>]_vars

\* with keys detected and mappings configured, processElement was called for
\* the line element inside the editor and returned at once
C11_Witness ==
    /\ call.fn = "processElement" /\ call.a = 16 /\ call.out = "return"
    /\ mappings # <<>>
    /\ ~shouldExcludeElement(MainId) /\ shouldExcludeElement(16)
    /\ detectedKeys # <<>> /\ processedCount > 0

\* C12 as stated, in its part about the error sink: an error that processBatch
\* caught while processing a text node has a record in the error log of the
\* session tier
C12_Stated == TextNodeError \in consoleErrors => TextNodeError \in errorLogs

\* C13 as stated: on no scan path is a promise rejected with nothing to catch it
C13_Stated == unhandled = {}

\* C14 as stated: the run of handleMutations that the debounce timer starts
\* gets the added elements of every observer callback since the last run
C14_Stated ==
    burst = {pendingMutations[i].addedNodes[1] : i \in 1..Len(pendingMutations)}

\* C15 as stated: once destroy has run, no callback of the intersection
\* observer starts a scan
C15_Stated ==
    [][destroyed => ~(\E target \in ElementIds : IntersectionCallback(target, TRUE))]_vars

\* the places in maps of the mappings whose pattern matches the key text
matching(maps, key) ==
    {i \in 1..Len(maps) : /\ ~patternThrows(maps[i].keyPrefix)
                           /\ MatchAt(maps[i].keyPrefix, key, 0) = Len(key)}

\* C16 as stated: the entry that getUniqueDetectedKeys exposes for a key text
\* carries the last of the configured mappings that match the key text
C16_Stated ==
    \A exposed \in {getUniqueDetectedKeys(detectedKeys)} :
        \A i \in 1..Len(exposed) :
            \A at \in {matching(mappings, exposed[i].key)} :
                at # {} => exposed[i].mapping = mappings[CHOOSE j \in at : \A k \in at : k <= j]

\* C18: generateUrl joins the base URL and the percent-encoded key with a single
\* slash: for https://issues.acme.com and WMS-42 it returns
\* https://issues.acme.com/WMS-42, and for every https base URL the result
\* starts with the base URL and ends with the percent-encoded key
C18_Stated ==
    call.fn = "generateUrl" /\ validateUrl(call.b) =>
        /\ ~call.out.threw
        /\ call.a = Wms42 /\ call.b = IssuesUrl => call.out.value = IssuesUrl \o <<"/">> \o Wms42
        /\ Len(call.out.value) >= Len(call.b)
        /\ SubSeq(call.out.value, 1, Len(call.b)) = call.b
        /\ \A encoded \in {encodeURIComponent(call.a)} :
               /\ Len(call.out.value) >= Len(encoded)
               /\ SubSeq(call.out.value, Len(call.out.value) - Len(encoded) + 1,
                         Len(call.out.value)) = encoded

\* C19: for every prefix P that satisfies the key-prefix invariant, the pattern
\* generatePattern(P) matches "P-123" and matches none of "Px-123", "123-P", "P-"
C19_Pattern ==
    call.fn = "generatePattern" /\ isValidKeyPrefix(call.a) =>
        /\ call.b = Texts(call.a).key => call.out = "match"
        /\ call.b \in {Texts(call.a).longer, Texts(call.a).reversed, Texts(call.a).bare}
               => call.out = "no match"

C19_Witness ==
    /\ call.fn = "generatePattern"
    /\ call.a = <<"x", "-", "1">>
    /\ call.b = <<"x", "-", "1", "x", "-", "1", "2", "3">>
    /\ call.out = "no match"

\* C17: no mapping whose keyPrefix violates ^[A-Za-z][A-Za-z0-9_-]*$ or whose
\* trackerUrl is not an https URL is ever passed to LinkProcessor.setMappings
C17_Stated ==
    \A i \in 1..Len(mappings) :
        /\ isValidKeyPrefix(mappings[i].keyPrefix)
        /\ URL(mappings[i].trackerUrl).ok
        /\ URL(mappings[i].trackerUrl).protocol = HttpsProtocol

\* C20: the stored repository-mapping list never has more than 1000 entries; a
\* write of a longer list stores its first 1000 entries and reports success
C20_Cap ==
    /\ Len(stored) <= StorageCap
    /\ call.fn = "setRepositoryMappings" =>
           /\ call.out = "success"
           /\ stored = SubSeq(call.a, 1, Len(stored))
           /\ Len(stored) = StorageCap \/ Len(stored) = Len(call.a)

C20_Witness ==
    /\ call.fn = "setRepositoryMappings"
    /\ call.b = "addRepositoryMapping"
    /\ Len(call.a) = StorageCap + 1
    /\ Len(stored) = StorageCap
    /\ call.a[StorageCap + 1].id \in NewIds
    /\ call.out = "success"

\* the window holds at most cap records: the last cap records of the call
\* history, the newest among them
Window(window, history, cap) ==
    /\ Len(window) <= cap
    /\ {window[i] : i \in 1..Len(window)}
           = {history[j] : j \in {k \in 1..Len(history) : k > Len(history) - cap}}
    /\ history # <<>> => \E i \in 1..Len(window) : window[i] = history[Len(history)]

\* C21: once the addPerformanceMetric calls have ended, the stored metrics are
\* the last 100 records added, and once the addErrorLog calls have ended, the
\* stored error logs are the last 50 records added
C21_Stated ==
    /\ Callers("metric") = {} => Window(performanceMetrics, call.a, MetricsCap)
    /\ Callers("log") = {} => Window(errorLogWindow, call.b, LogsCap)

\* C22: a failed write of a performance metric or of an error-log record is
\* logged to the console, and no rejection leaves init or
\* processInitialContent because of it
C22_Stated ==
    /\ "init" \notin unhandled
    /\ "processInitialContent" \notin unhandled
    /\ call.fn = "processInitialContent" =>
           call.out = "resolved" /\ ProcessFailed \in consoleErrors

\* C23: after the options page changed the language or the theme, with the
\* message delivered and the sync tier writable, userPreferences holds the new
\* value and every open extension page shows it
C23_Stated ==
    call.fn = "handleChange" /\ call.out = "stored"
        => /\ userPreferences[call.a] = call.b
           /\ optionsPage[call.a] = call.b
           /\ popup.open => popup[call.a] = call.b

\* C24: after an enabling toggle that was confirmed and whose
\* SET_USER_PREFERENCES request threw or was answered with success: false, the
\* enabled state the popup shows is the persisted one
C24_Stated ==
    popup.open /\ call.fn = "toggleEnabled" /\ call.a /\ call.b /\ call.out # "stored"
        => popup.preferences.enabled = userPreferences.enabled

\* C25: while the extension is disabled, the reply to GET_DETECTED_KEYS of the
\* page holds no keys and the badge of the tab is empty
C25_Stated ==
    ~userPreferences.enabled
        => /\ handleGetDetectedKeys.keys = <<>>
           /\ badge.tab = <<>>

\* C26: once the page is processed and no scan is in flight, the badge of the
\* tab shows the number of deduplicated detected keys
C26_Stated ==
    listening /\ tasks = <<>>
        => badge.tab = badgeText(Len(getUniqueDetectedKeys(detectedKeys)))

\* the runs of processTextNodes that wait for their next batch
Sleepers(ts) == SelectSeq(ts, LAMBDA t : t.pc = "sleep")

\* the idle callbacks that are queued
Idlers(ts) == SelectSeq(ts, LAMBDA t : t.pc = "idle")

\* a step in which a traversal begins: text nodes are visited and no waiting
\* run has moved
ScanStarts ==
    /\ processedCount' > processedCount
    /\ \A i \in 1..Len(Sleepers(tasks)) :
          \E j \in 1..Len(Sleepers(tasks')) : Sleepers(tasks')[j] = Sleepers(tasks)[i]

\* C27: a traversal that begins while performanceMode is fast begins in a step
\* that runs a queued idle callback
C27_Stated ==
    [][ScanStarts /\ options.performanceMode = "fast"
          => Len(Idlers(tasks')) < Len(Idlers(tasks))]_vars

\* this.detectedKeys after the existing-link pass over element and one pass
\* over textNodes in their order, from an empty list
onePass(element, textNodes) ==
    processBatch(detectKeysInExistingLinks(<<>>, mappings, element), mappings, textNodes)

\* C28: a run of processTextNodes that waits has been through the groups
\* 1..y of batchSize nodes of getTextNodes(element), has yielded once after
\* each of them, has a further group to go, and has handed each node of
\* these groups to detection once and in document order; a completed run has
\* done so for all its nodes and has yielded once between two groups
C28_Partition ==
    /\ \A idx \in 1..Len(tasks) :
          tasks[idx].pc = "sleep"
              => \E t \in {tasks[idx]}, b \in {options.batchSize} :
                    /\ t.textNodes = getTextNodes(t.element)
                    /\ t.i = (t.y - 1) * b
                    /\ t.i + b < Len(t.textNodes)
                    /\ processedCount = t.i + b
                    /\ detectedKeys = onePass(t.element, SubSeq(t.textNodes, 1, t.i + b))
    /\ lastScan # NoScan
          => /\ lastScan.nodes = Len(getTextNodes(lastScan.element))
             /\ processedCount = lastScan.nodes
             /\ lastScan.yields * lastScan.batchSize < lastScan.nodes
             /\ lastScan.nodes <= (lastScan.yields + 1) * lastScan.batchSize
             /\ detectedKeys = onePass(lastScan.element, getTextNodes(lastScan.element))

\* a run of three groups has completed, the last group shorter than batchSize
C28_Witness ==
    /\ lastScan.yields = 2
    /\ lastScan.nodes % lastScan.batchSize # 0
    /\ processedCount = lastScan.nodes
    /\ detectedKeys # <<>>

RECURSIVE ElementsAdded(_)
\* the element nodes among the added nodes of the childList records, in the
\* order of the records
ElementsAdded(records) ==
    IF records = <<>> THEN <<>>
    ELSE (IF Head(records).type = "childList"
          THEN SelectSeq(Head(records).addedNodes, LAMBDA n : n \in ElementIds)
          ELSE <<>>) \o ElementsAdded(Tail(records))

\* C29: the nodes a run of handleMutations has handed to processElement, one
\* per call, are the first of the element nodes added by the childList records
\* it was given, and all of them once the run has ended
C29_Filter ==
    call.fn = "handleMutations"
        => /\ Len(call.b) <= Len(ElementsAdded(call.a))
           /\ call.b = SubSeq(ElementsAdded(call.a), 1, Len(call.b))
           /\ (\A i \in 1..Len(tasks) : tasks[i].kind # "mutations")
                 => call.b = ElementsAdded(call.a)

\* a run given an attribute record and a record with two elements and a text
\* node between them has ended
C29_Witness ==
    /\ call.fn = "handleMutations"
    /\ call.a = << MutationRecord("attributes", <<>>),
                   MutationRecord("childList", << 14, 11, 10 >>) >>
    /\ call.b = << 14, 10 >>
    /\ \A i \in 1..Len(tasks) : tasks[i].kind # "mutations"

\* this.detectedKeys after the existing-link pass over element and one pass
\* over textNodes with the mapping set maps, from an empty list
scanWith(maps, element, textNodes) ==
    processBatch(detectKeysInExistingLinks(<<>>, maps, element), maps, textNodes)

\* C30 as stated: a run of processTextNodes detects in every group with the
\* mapping set that was active when it started, whatever setMappings has set
\* since
C30_Stated ==
    call.fn = "processTextNodes"
        => /\ \A idx \in 1..Len(tasks) :
                 tasks[idx].pc = "sleep"
                     => detectedKeys
                            = scanWith(call.b, call.a,
                                       SubSeq(tasks[idx].textNodes, 1,
                                              tasks[idx].i + options.batchSize))
           /\ tasks = <<>> /\ lastScan # NoScan
                 => detectedKeys = scanWith(call.b, call.a, getTextNodes(call.a))

\* C31 as stated: from the reset of handleNavigation until the rescan of the
\* new page begins, the detection list stays empty, whatever a scan begun
\* before the navigation does
C31_Stated ==
    (rescanTimers > 0 \/ \E i \in 1..Len(tasks) : tasks[i].kind = "navigation")
        => handleGetDetectedKeys.keys = <<>>

\* C32: no step changes batchSize, maxProcessingTime or
\* useIntersectionObserver, which stay those of the construction, and a step
\* that changes the options sets performanceMode to fast and nothing else
C32_Frame ==
    [][/\ options'.batchSize = options.batchSize
       /\ options'.maxProcessingTime = options.maxProcessingTime
       /\ options'.useIntersectionObserver = options.useIntersectionObserver
       /\ [options' EXCEPT !.performanceMode = "auto"]
              = [constructorOptions(elementCount) EXCEPT !.performanceMode = "auto"]
       /\ options'.performanceMode # options.performanceMode
              => options'.performanceMode = "fast"]_vars

\* a processor of the middle row has been downgraded and has then completed a
\* scan with the batch size of its construction
C32_Witness ==
    /\ options.performanceMode = "fast"
    /\ constructorOptions(elementCount).performanceMode = "auto"
    /\ options.batchSize = constructorOptions(elementCount).batchSize
    /\ options.maxProcessingTime = constructorOptions(elementCount).maxProcessingTime
    /\ ~options.useIntersectionObserver
    /\ lastScan.batchSize = options.batchSize
    /\ \A idx \in 1..Len(tasks) : tasks[idx].pc # "idle"
    /\ processedCount > lastScan.nodes

\* C33: in every iteration of the loop the cursor moves forward and stays
\* within one position past the text, so the loop ends after at most
\* Len(text) + 1 matches; every match begins at or after the end of the match
\* before it; and what the loop has pushed when it ends are the matched texts
C33_Terminates ==
    [][call.fn = "exec"
          => /\ call'.fn = "exec"
                   => /\ call'.out > call.out
                      /\ call'.out <= Len(call.a[2]) + 1
                      /\ Len(call'.b) <= Len(call.a[2]) + 1
                      /\ \A k \in 2..Len(call'.b) :
                            /\ call'.b[k - 1].end <= call'.b[k].index
                            /\ call'.b[k - 1].index < call'.b[k].index
             /\ call'.fn = "ended"
                   => \E done \in {execLoop(<<>>, Mapping(1, R1, IssuesUrl, call.a[1], TRUE),
                                             call.a[2], 0)} :
                         {done[k].key : k \in 1..Len(done)}
                            = {SubSeq(call.a[2], call.b[k].index + 1, call.b[k].end) :
                                   k \in 1..Len(call.b)}]_vars

\* the loop has ended on a text with a key after two empty matches and the
\* match of the key
C33_Witness ==
    /\ call.fn = "ended"
    /\ call.a = << Bar, << " ", "-", "1", " " >> >>
    /\ call.b = << [index |-> 1, end |-> 3], [index |-> 3, end |-> 3] >>

\* ------------------------------------------------------------------ background messages specification
\* BackgroundService.handleMessage: one async function per message, suspended
\* at the storage or badge call it awaits, and the replies it sends. call.a
\* is the list of the messages received, call.b the list of the replies.

\* most messages received
MaxMessages == 3

\* a message: has says that it has a data member
Message(type, has, id, count, tabId, preferences, mapping) ==
    [type |-> type, has |-> has, id |-> id, count |-> count, tabId |-> tabId,
     preferences |-> preferences, mapping |-> mapping]

\* the mapping member of a message that carries none
NoMapping == Mapping(0, Null, <<>>, <<>>, FALSE)

\* two mappings the options page saves as new, with distinct ids
Added == << Mapping(7, R2, OtherUrl, API, TRUE), Mapping(8, R1, OtherUrl, API, TRUE) >>

Messages ==
    { Message("GET_USER_PREFERENCES", FALSE, 0, 0, FALSE, defaultPreferences, NoMapping),
      Message("SET_USER_PREFERENCES", TRUE, 0, 0, FALSE,
              [defaultPreferences EXCEPT !.enabled = FALSE], NoMapping),
      Message("REMOVE_REPOSITORY_MAPPING", TRUE, 1, 0, FALSE, defaultPreferences, NoMapping),
      Message("REMOVE_REPOSITORY_MAPPING", FALSE, 0, 0, FALSE, defaultPreferences, NoMapping),
      Message("CLEAR_ERROR_LOGS", FALSE, 0, 0, FALSE, defaultPreferences, NoMapping),
      Message("UPDATE_BADGE", TRUE, 0, 3, TRUE, defaultPreferences, NoMapping),
      Message("UPDATE_BADGE", FALSE, 0, 0, FALSE, defaultPreferences, NoMapping),
      Message("UPDATE_USER_PREFERENCES", TRUE, 0, 0, FALSE, defaultPreferences, NoMapping),
      Message("ADD_REPOSITORY_MAPPING", TRUE, 0, 0, FALSE, defaultPreferences, Added[1]),
      Message("ADD_REPOSITORY_MAPPING", TRUE, 0, 0, FALSE, defaultPreferences, Added[2]) }

\* the cases of the switch that read a member of message.data
readsData(type) ==
    type \in {"REMOVE_REPOSITORY_MAPPING", "SHOW_NOTIFICATION", "UPDATE_BADGE"}

\* variant: no catch around the switch
sendResponses_noCatch(type, threw) ==
    IF type \notin MessageTypes
    THEN << [success |-> FALSE, error |-> "Unknown message type"] >>
    ELSE IF threw THEN <<>>
    ELSE << [success |-> TRUE, error |-> ""] >>

\* the sendResponse calls of one run of the async function of handleMessage:
\* the default case, the catch, the end of a case
sendResponses(type, threw) ==
    IF type \notin MessageTypes
    THEN << [success |-> FALSE, error |-> "Unknown message type"] >>
    ELSE IF threw THEN << [success |-> FALSE, error |-> "Unknown error"] >>
    ELSE << [success |-> handleMessage_success(type, TRUE), error |-> ""] >>

\* the replies of the run for message number n, with what the run did
repliesOf(n, type, threw) ==
    [k \in 1..Len(sendResponses(type, threw)) |->
        [message |-> n, threw |-> threw,
         success |-> sendResponses(type, threw)[k].success,
         error |-> sendResponses(type, threw)[k].error]]

\* chrome.runtime.onMessage: handleMessage runs to its first await; a read of
\* a member of an undefined data throws into the catch. The storage operation
\* of an add or a remove reads the list here and writes when it settles.
Receive(message) ==
    /\ Len(call.a) < MaxMessages
    /\ Len(tasks) < MaxTasks
    /\ \E n \in {Len(call.a) + 1} :
         IF message.type \notin MessageTypes \/ (readsData(message.type) /\ ~message.has)
         THEN /\ call' = [call EXCEPT
                              !.fn = "handleMessage",
                              !.a = Append(@, message),
                              !.b = @ \o repliesOf(n, message.type, TRUE)]
              /\ tasks' = tasks
         ELSE /\ call' = [call EXCEPT !.fn = "handleMessage", !.a = Append(@, message)]
              /\ tasks' = Append(tasks, [NoTask EXCEPT !.kind = "message", !.pc = "await",
                                                       !.i = n,
                                                       !.read = getRepositoryMappings])
    /\ UNCHANGED << pageVars, navVars, mappings, processedCount, detectedKeys, options,
                    observed, pendingMutations, lastProcessingTime, lastScan, regScans,
                    burst, errVars, stored, destroyed, extVars >>

\* the awaited call of a suspended handleMessage settles: fulfilled (ok) or
\* rejected; updateBadge catches what setBadgeText rejects with
MessageSettled(idx, ok) ==
    /\ tasks[idx].kind = "message"
    /\ \E n \in {tasks[idx].i} : \E message \in {call.a[n]} :
         /\ userPreferences' = handleMessage_preferences(message.type, message.preferences, ok)
         /\ stored' = IF message.type = "REMOVE_REPOSITORY_MAPPING" /\ ok
                      THEN setRepositoryMappings(
                               removeRepositoryMapping(tasks[idx].read, message.id))
                      ELSE IF message.type = "ADD_REPOSITORY_MAPPING" /\ ok
                      THEN setRepositoryMappings(
                               addRepositoryMapping(tasks[idx].read, message.mapping))
                      ELSE stored
         /\ errorLogWindow' = IF message.type = "CLEAR_ERROR_LOGS" /\ ok
                              THEN <<>> ELSE errorLogWindow
         /\ badge' = IF message.type = "UPDATE_BADGE" /\ ok
                     THEN updateBadge(message.count, message.tabId) ELSE badge
         /\ call' = [call EXCEPT
                         !.b = @ \o repliesOf(n, message.type,
                                              ~ok /\ message.type # "UPDATE_BADGE")]
    /\ tasks' = RemoveAt(tasks, idx)
    /\ UNCHANGED << pageVars, navVars, mappings, processedCount, detectedKeys, options,
                    observed, pendingMutations, lastProcessingTime, lastScan, regScans,
                    burst, errVars, destroyed, performanceMetrics, now, popup,
                    optionsPage >>

NextBackground ==
    \/ \E message \in Messages : Receive(message)
    \/ \E idx \in 1..Len(tasks), ok \in BOOLEAN : MessageSettled(idx, ok)

SpecBackground == InitTracker /\ [][NextBackground]_vars

\* the replies to message number n
RepliesTo(n) == { k \in 1..Len(call.b) : call.b[k].message = n }

\* the messages whose handleMessage run is suspended
Suspended == { tasks[i].i : i \in { j \in 1..Len(tasks) : tasks[j].kind = "message" } }

\* C34: every message received by the background service gets exactly one
\* reply once its handler has run to its end and none before: success true
\* and no error text when the handler completed, success false and an error
\* text when it threw or the type is unknown; messages after a failed one are
\* answered in the same way.
C34_OneResponse ==
    call.fn = "handleMessage" =>
        /\ \A n \in 1..Len(call.a) :
             Cardinality(RepliesTo(n)) = IF n \in Suspended THEN 0 ELSE 1
        /\ \A k \in 1..Len(call.b) :
             /\ call.b[k].message \in 1..Len(call.a)
             /\ call.b[k].success =
                    (call.a[call.b[k].message].type \in MessageTypes /\ ~call.b[k].threw)
             /\ call.b[k].success = (call.b[k].error = "")

\* a message whose awaited call was rejected got its failure reply and the
\* message after it its success reply
C34_Witness ==
    /\ call.fn = "handleMessage"
    /\ Len(call.b) = 3
    /\ call.a[1].type = "SET_USER_PREFERENCES" /\ call.a[2].type = "UPDATE_USER_PREFERENCES"
    /\ \E k \in RepliesTo(1) : call.b[k].threw /\ ~call.b[k].success
    /\ \E k \in RepliesTo(2) : call.b[k].error = "Unknown message type"
    /\ \E k \in RepliesTo(3) : call.b[k].success /\ k = 3

\* ------------------------------------------------------------------ page lifetime specification
\* One page from its load to its end, with the preference enabled stored as
\* true or as false when the page is loaded; nothing writes the preferences
\* while the page lives.

\* the page is loaded with this value of the stored preference enabled
LoadedEnabled(enabled) ==
    /\ userPreferences = [defaultPreferences EXCEPT !.enabled = enabled]
    /\ performanceMetrics = <<>>
    /\ errorLogWindow = <<>>
    /\ now = 0
    /\ popup = ClosedPage
    /\ optionsPage = ClosedPage
    /\ badge = NoBadge
    /\ stored = repositoryMappings
    /\ destroyed = FALSE
    /\ errorLogs = {}
    /\ consoleErrors = {}
    /\ unhandled = {}
    /\ burst = {}
    /\ call = NoCall

InitLifetime ==
    \E enabled \in BOOLEAN, u \in Urls :
        LoadedEnabled(enabled) /\ InitWith(u, SmallDocument, 0)

\* what a page without batches and without viewport observation can do
NextLifetime ==
    \/ \E idx \in 1..Len(tasks), ok \in BOOLEAN : InitPrefs(idx, ok)
    \/ \E idx \in 1..Len(tasks), ok \in BOOLEAN : InitMappings(idx, ok)
    \/ \E idx \in 1..Len(tasks) : ContentDone(idx)
    \/ \E idx \in 1..Len(tasks) : IdleCallback(idx)
    \/ \E rs \in SUBSET Addable : AddNodes(rs)
    \/ MutationTimer
    \/ \E idx \in 1..Len(tasks) : MutationsNext(idx)
    \/ \E u \in Urls : NavigatePush(u)
    \/ \E u \in Urls : NavigatePop(u)
    \/ CheckUrlChange
    \/ \E idx \in 1..Len(tasks), ok \in BOOLEAN : NavCacheGet(idx, ok)
    \/ \E idx \in 1..Len(tasks), ok \in BOOLEAN : NavCacheSet(idx, ok)
    \/ \E idx \in 1..Len(tasks), ok \in BOOLEAN : NavFetch(idx, ok)
    \/ RescanTimer

SpecLifetime == InitLifetime /\ [][NextLifetime]_vars

\* C35: when the stored preference enabled is false at page load, the content
\* script never scans while the page lives: no processElement run starts, no
\* mutation observer and no navigation listener is installed, no rescan is
\* scheduled, and the detection array stays empty.
C35_NoScan ==
    ~userPreferences.enabled =>
        /\ detectedKeys = <<>> /\ processedCount = 0
        /\ ~listening /\ observed = {} /\ pendingMutations = <<>>
        /\ rescanTimers = 0 /\ lastScan = NoScan
        /\ \A e \in ElementIds : regScans[e] = 0
        /\ \A i \in 1..Len(tasks) : tasks[i].kind = "init" /\ tasks[i].pc = "prefs"

\* the page was loaded at a repository with mappings while disabled, init has
\* returned, and the page has since added nodes and navigated
C35_Witness ==
    /\ ~userPreferences.enabled
    /\ tasks = <<>>
    /\ lastUrl = <<"acme", "widgets">>
    /\ added # {} /\ navCount > 0

\* C36: when the processElement call of processInitialContent for the content
\* root has resolved and processInitialContent has read the key list and the
\* processed count, a processTextNodes run over the content root has finished
\* and has been through every text node collected under it.
C36_Stated ==
    \A i \in 1..Len(tasks) :
        tasks[i].kind = "init" /\ tasks[i].pc = "metric" =>
            /\ lastScan.element = contentElement
            /\ lastScan.nodes = Len(getTextNodes(contentElement))

\* C37: once init has installed the navigation listener, whenever no
\* handleNavigation run is in progress the mappings of the LinkProcessor are
\* the enabled mappings stored for currentRepository, and none when
\* currentRepository is null.
C37_Stated ==
    (listening /\ \A i \in 1..Len(tasks) : tasks[i].kind # "navigation") =>
        mappings = IF currentRepository = Null THEN <<>>
                   ELSE getMappingForRepository(currentRepository)

\* the handleNavigation runs that are suspended
NavigationsInProgress == { i \in 1..Len(tasks) : tasks[i].kind = "navigation" }

\* C38: every change of the location makes handleNavigation run once, whatever
\* signals report it: the handleNavigation runs in progress and the rescans
\* they have scheduled and that have not begun are together no more than the
\* changes of the location so far.
C38_Stated == Cardinality(NavigationsInProgress) + rescanTimers <= navCount

\* the page lifetime with every timer, callback and storage reply that is due
\* happening eventually
SpecLifetimeFair == SpecLifetime /\ WF_vars(NextLifetime)

\* the page was loaded, enabled, at a location that is no repository page or
\* whose repository has no enabled mapping, init has returned without an
\* error, and the page has since gone without reload to a repository that
\* has enabled mappings (lastUrl is the location of the load as long as no
\* listener is installed)
SoftNavigated ==
    /\ userPreferences.enabled /\ errorLogs = {}
    /\ ~listening /\ tasks = <<>>
    /\ getMappingForRepository(extractRepositoryFromUrl(lastUrl)) = <<>>
    /\ navCount > 0
    /\ getMappingForRepository(extractRepositoryFromUrl(url)) # <<>>

\* C39: after such a soft navigation the new page is eventually scanned
C39_Stated == SoftNavigated ~> (processedCount > 0)

\* the messages of this type that have been answered with success
Succeeded(type) ==
    { n \in 1..Len(call.a) :
        call.a[n].type = type /\ \E k \in RepliesTo(n) : call.b[k].success }

\* C40: when add requests with distinct ids have been handled by the
\* background service, concurrently or not, next to no remove request, and
\* have been answered with success, and no request is still being handled,
\* the mappings of all of them are in the stored list.
C40_Stated ==
    (/\ call.fn = "handleMessage"
     /\ Suspended = {}
     /\ Succeeded("REMOVE_REPOSITORY_MAPPING") = {})
    => \A n \in Succeeded("ADD_REPOSITORY_MAPPING") :
          \E i \in 1..Len(stored) : stored[i].id = call.a[n].mapping.id

====
